---------------------------- MODULE Spec2Model ----------------------------
(***************************************************************************)
(* Booking chat agent (backend/main.py, backend/main_clean.py).            *)
(*                                                                         *)
(* Spec      : the /chat turn of backend/main.py for one session: intent   *)
(*             extraction (LLM with rule-based fallback), merge into the   *)
(*             session's booking_info, dispatch to the remote booking API. *)
(* SpecMerge : the merge step of both backends as a pure function of the   *)
(*             prior session slots and the turn's intent.                  *)
(* SpecExtract : intent selection (LLM, rule-based fallback) on drawn      *)
(*             utterances and LLM outcomes.                                *)
(* SpecClassify : the keyword classification of the rule-based extractor   *)
(*             on drawn messages.                                          *)
(* SpecProbe : the dispatch of get_booking, update_booking and             *)
(*             cancel_booking on drawn remote records and answers.         *)
(* SpecConc  : /chat requests of several sessions running concurrently on  *)
(*             the event loop, one step per stretch between awaits.        *)
(* SpecAvail : check_availability without a restaurant, on drawn answers   *)
(*             of every restaurant of the metadata table.                  *)
(* SpecRef   : the booking reference a turn stores, on drawn texts and     *)
(*             both extraction paths.                                      *)
(* SpecHistory : the conversation history and message_count of one         *)
(*             session over many turns.                                    *)
(* SpecDate  : normalize_date_text of both backends on drawn texts and     *)
(*             days.                                                       *)
(* SpecTime  : _normalize_time_to_hhmmss on drawn texts.                   *)
(* SpecClean : the /chat turns of one session of backend/main_clean.py:    *)
(*             intent extraction, merge into session_data['booking'],      *)
(*             availability check and create_booking.                      *)
(***************************************************************************)
EXTENDS Integers, Sequences, FiniteSets, TLC

(***************************************************************************)
(* Bounds                                                                  *)
(***************************************************************************)
\* number of catalog restaurants the remote API serves in the model
NumRestaurants == 2
\* number of booking references the remote API can issue
MaxBookings == 1
\* number of slots the merge-only specification ranges over
NumMergeSlots == 3
\* number of /chat requests the concurrent specification runs
NumRequests == 2
\* number of bookings a session of main_clean.py creates before the model stops
MaxCleanBookings == 2

(***************************************************************************)
(* Values                                                                  *)
(***************************************************************************)
\* a key that is not in the dict
Absent == "absent"
\* a key that is in the dict with a falsy value (None, "", 0)
Null == "null"

Truthy(v) == v # Absent /\ v # Null

\* BookingAPIClient._restaurant_metadata, in insertion order
RestaurantMetadata == <<"TheHungryUnicorn", "PizzaPalace", "SushiZen", "CafeBistro">>
RESTAURANT_NAME == "TheHungryUnicorn"

Catalog == SubSeq(RestaurantMetadata, 1, NumRestaurants)
CatalogSet == {Catalog[i] : i \in 1..Len(Catalog)}
\* every restaurant of the metadata table
AllRestaurants == {RestaurantMetadata[i] : i \in 1..Len(RestaurantMetadata)}

RefSeq == <<"ABC1234", "XYZ9876", "QRS5555">>
Refs == {RefSeq[i] : i \in 1..MaxBookings}

Slots == {"restaurant", "date", "time", "party_size", "name", "email", "booking_reference"}
Keys == Slots \cup {"action"}
required_fields == <<"restaurant", "date", "time", "party_size", "name", "email">>
RequiredSet == {required_fields[i] : i \in 1..Len(required_fields)}

DispatchActions == {"check_availability", "book", "get_booking", "update_booking", "cancel_booking"}
LLMActions == DispatchActions \cup {"info"}

\* an intent with no key; also stands for the None the extractors return
EmptyDict == [k \in Keys |-> Absent]
\* a booking_info with no slot
EmptySlots == [k \in Slots |-> Absent]

(***************************************************************************)
(* Merge step                                                              *)
(***************************************************************************)
\* variant: a value already held is never replaced
MergeMainFirstWins(session_booking, intent) ==
  [k \in DOMAIN session_booking |->
     IF Truthy(intent[k]) /\ ~Truthy(session_booking[k]) THEN intent[k] ELSE session_booking[k]]

\* main.py: for key, value in intent.items(): if value: session_booking[key] = value
MergeMain(session_booking, intent) ==
  [k \in DOMAIN session_booking |->
     IF Truthy(intent[k]) THEN intent[k] ELSE session_booking[k]]

\* main_clean.py: merged_intent = {**session_data.get('booking', {}), **booking_intent}
MergeClean(booking, booking_intent) ==
  [k \in DOMAIN booking |->
     IF booking_intent[k] # Absent THEN booking_intent[k] ELSE booking[k]]


(***************************************************************************)
(* Slot texts of the model and their lexical structure                     *)
(***************************************************************************)
\* the date the model takes for datetime.now().date()
Now == <<2025, 8, 14>>
NoDate == <<>>

\* date texts an utterance can carry: a valid absolute date, a phrase no format accepts
DateTexts == {"15/08/2025", "february 30"}
\* what strptime sees in each text: the format that can match it and its fields
DateLex(txt) ==
  CASE txt = "15/08/2025" -> [fmt |-> "%d/%m/%Y", y |-> 2025, m |-> 8, d |-> 15]
    [] txt = "2025-08-15" -> [fmt |-> "%Y-%m-%d", y |-> 2025, m |-> 8, d |-> 15]
    [] txt = "february 30" -> [fmt |-> "%B %d", y |-> 1900, m |-> 2, d |-> 30]
    [] txt = "august 20" -> [fmt |-> "%B %d", y |-> 1900, m |-> 8, d |-> 20]
    [] txt = "today" -> [fmt |-> "today", y |-> 0, m |-> 0, d |-> 0]
    [] txt = "tomorrow" -> [fmt |-> "tomorrow", y |-> 0, m |-> 0, d |-> 0]
    [] OTHER -> [fmt |-> "none", y |-> 0, m |-> 0, d |-> 0]

IsLeap(y) == (y % 4 = 0 /\ y % 100 # 0) \/ y % 400 = 0
DaysInMonth(y, m) ==
  IF m = 2 THEN (IF IsLeap(y) THEN 29 ELSE 28)
  ELSE IF m \in {4, 6, 9, 11} THEN 30 ELSE 31
ValidYMD(y, m, d) == m \in 1..12 /\ d >= 1 /\ d <= DaysInMonth(y, m)
DateLess(a, b) ==
  \/ a[1] < b[1]
  \/ a[1] = b[1] /\ a[2] < b[2]
  \/ a[1] = b[1] /\ a[2] = b[2] /\ a[3] < b[3]
NextDay(t) ==
  IF t[3] < DaysInMonth(t[1], t[2]) THEN <<t[1], t[2], t[3] + 1>>
  ELSE IF t[2] < 12 THEN <<t[1], t[2] + 1, 1>> ELSE <<t[1] + 1, 1, 1>>

\* date.toordinal, date.weekday (Monday is 0) and date + timedelta(days=n)
toordinal(t) ==
  LET before[k \in 1..12] == IF k = 1 THEN 0 ELSE before[k - 1] + DaysInMonth(t[1], k - 1)
      y == t[1] - 1
  IN y * 365 + (y \div 4) - (y \div 100) + (y \div 400) + before[t[2]] + t[3]
weekday(t) == (toordinal(t) + 6) % 7
AddDays(t, n) ==
  LET f[i \in 0..n] == IF i = 0 THEN t ELSE NextDay(f[i - 1]) IN f[n]

\* A date text by its characters.  kind "digits": three digit groups n1, n2, n3
\* of w1, w2, w3 characters (leading zeros counted) with sep between them;
\* "monthday": the word, a blank and the digit group n1; "weekday": the word,
\* after "next " when n1 = 1; "word": the word alone.  Texts are lower case, as
\* normalize_date_text makes them.
DateText(kind, word, sep, n1, w1, n2, w2, n3, w3) ==
  [kind |-> kind, word |-> word, sep |-> sep,
   n1 |-> n1, w1 |-> w1, n2 |-> n2, w2 |-> w2, n3 |-> n3, w3 |-> w3]
NoDateText == DateText("word", "", "", 0, 0, 0, 0, 0, 0)

\* %B and %b of strptime
MonthNames ==
  <<"january", "february", "march", "april", "may", "june", "july", "august",
    "september", "october", "november", "december">>
MonthAbbreviations ==
  <<"jan", "feb", "mar", "apr", "may", "jun", "jul", "aug", "sep", "oct", "nov", "dec">>
\* the weekdays dict of main_clean.py, Monday first
weekdays ==
  <<"monday", "tuesday", "wednesday", "thursday", "friday", "saturday", "sunday">>
IndexOf(seq, word) == CHOOSE i \in 1..Len(seq) : seq[i] = word
InSeq(seq, word) == \E i \in 1..Len(seq) : seq[i] = word

\* what strptime sees in a text given by its characters: the first format of
\* normalize_date_text whose shape it has, and the fields that format reads
\* (%Y takes four digits, %m and %d one or two)
LexDateText(t) ==
  LET short(w) == w \in {1, 2} IN
  CASE t.kind = "digits" /\ t.w1 = 4 /\ short(t.w2) /\ short(t.w3) ->
         [fmt |-> IF t.sep = "-" THEN "%Y-%m-%d" ELSE "%Y/%m/%d",
          y |-> t.n1, m |-> t.n2, d |-> t.n3]
    [] t.kind = "digits" /\ short(t.w1) /\ short(t.w2) /\ t.w3 = 4 ->
         [fmt |-> IF t.sep = "-" THEN "%d-%m-%Y" ELSE "%d/%m/%Y",
          y |-> t.n3, m |-> t.n2, d |-> t.n1]
    [] t.kind = "monthday" /\ InSeq(MonthNames, t.word) /\ short(t.w1) ->
         [fmt |-> "%B %d", y |-> 1900, m |-> IndexOf(MonthNames, t.word), d |-> t.n1]
    [] t.kind = "monthday" /\ InSeq(MonthAbbreviations, t.word) /\ short(t.w1) ->
         [fmt |-> "%b %d", y |-> 1900, m |-> IndexOf(MonthAbbreviations, t.word), d |-> t.n1]
    [] t.kind = "word" /\ t.word \in {"today", "tomorrow"} ->
         [fmt |-> t.word, y |-> 0, m |-> 0, d |-> 0]
    [] OTHER -> [fmt |-> "none", y |-> 0, m |-> 0, d |-> 0]

\* variant: the year written with two digits
isoformatShortYear(d) == DateText("digits", "", "-", d[1] % 100, 2, d[2], 2, d[3], 2)
\* date.isoformat: YYYY-MM-DD, zero padded
isoformat(d) == DateText("digits", "", "-", d[1], 4, d[2], 2, d[3], 2)

\* normalize_date_text of main.py on what strptime sees, on the day now:
\* ISO date as <<year, month, day>>, NoDate for None
normalize_date_lexed(x, now) ==
  IF x.fmt \in {"%Y-%m-%d", "%Y/%m/%d", "%d-%m-%Y", "%d/%m/%Y"}
  THEN (IF x.y >= 1 /\ ValidYMD(x.y, x.m, x.d) THEN <<x.y, x.m, x.d>> ELSE NoDate)
  ELSE IF x.fmt = "today" THEN now
  ELSE IF x.fmt = "tomorrow" THEN NextDay(now)
  ELSE IF x.fmt \in {"%B %d", "%b %d"}
  THEN \* strptime takes the year 1900 before replace(year=...)
       (IF ~ValidYMD(1900, x.m, x.d) THEN NoDate
        ELSE IF DateLess(<<now[1], x.m, x.d>>, now) THEN <<now[1] + 1, x.m, x.d>>
        ELSE <<now[1], x.m, x.d>>)
  ELSE NoDate

\* IntentExtractor.normalize_date_text of main.py on a slot text of the model
normalize_date_text(date_text) ==
  IF ~Truthy(date_text) THEN NoDate
  ELSE normalize_date_lexed(DateLex(date_text), Now)

\* the same function on a text given by its characters
main_normalize_date_text(t, now) == normalize_date_lexed(LexDateText(t), now)

\* variant: the weekday of today stands for today
weekday_deltaSameDay(target, today, add_week) ==
  ((target - today) % 7) + add_week * 7
\* main_clean.py: delta = (target - now.weekday()) % 7; 0 becomes 7; plus a week
\* after "next"
weekday_delta(target, today, add_week) ==
  LET delta == (target - today) % 7 IN
  (IF delta = 0 THEN 7 ELSE delta) + add_week * 7

\* normalize_date_text of main_clean.py: the same formats, then the weekdays
clean_normalize_date_text(t, now) ==
  LET x == LexDateText(t) IN
  IF x.fmt # "none" THEN normalize_date_lexed(x, now)
  ELSE IF t.kind = "weekday" /\ InSeq(weekdays, t.word)
  THEN AddDays(now, weekday_delta(IndexOf(weekdays, t.word) - 1, weekday(now), t.n1))
  ELSE NoDate

\* what _normalize_time_to_hhmmss sees in a time text
TimeLex(txt) ==
  CASE txt = "7pm" -> [colon |-> FALSE, hour |-> 7, minute |-> 0, suffix |-> "pm", ok |-> TRUE]
    [] txt = "19:30" -> [colon |-> TRUE, hour |-> 19, minute |-> 30, suffix |-> "", ok |-> TRUE]
    [] txt = "12am" -> [colon |-> FALSE, hour |-> 12, minute |-> 0, suffix |-> "am", ok |-> TRUE]
    [] OTHER -> [colon |-> FALSE, hour |-> 0, minute |-> 0, suffix |-> "", ok |-> FALSE]

\* BookingAPIClient._normalize_time_to_hhmmss: <<hour, minute, second>>
normalize_time_to_hhmmss(time_str) ==
  LET t == TimeLex(time_str) IN
  IF ~t.ok THEN <<19, 0, 0>>
  ELSE IF t.colon
  THEN (IF t.suffix = "pm" THEN <<(IF t.hour # 12 THEN t.hour + 12 ELSE t.hour), t.minute, 0>>
        ELSE IF t.suffix = "am" THEN <<(IF t.hour = 12 THEN 0 ELSE t.hour), t.minute, 0>>
        ELSE <<t.hour, t.minute, 0>>)
  ELSE (IF t.suffix = "pm" /\ t.hour # 12 THEN <<t.hour + 12, 0, 0>>
        ELSE IF t.suffix = "am" /\ t.hour = 12 THEN <<0, 0, 0>>
        ELSE <<t.hour, 0, 0>>)

\* A time text by its characters: the number of groups that ':' separates, whether
\* every group (the am/pm suffix taken off) reads as an integer, the hour and the
\* digits it is written with, the minute and second groups, and the suffix.
TimeText(parts, numeric, hour, wh, minute, second, suffix) ==
  [parts |-> parts, numeric |-> numeric, hour |-> hour, wh |-> wh,
   minute |-> minute, second |-> second, suffix |-> suffix]
NoTimeText == TimeText(1, FALSE, 0, 0, 0, 0, "")
\* f"{hour:02d}:{minute:02d}:00"
hhmmss(hour, minute) == TimeText(3, TRUE, hour, 2, minute, 0, "")

\* BookingAPIClient._normalize_time_to_hhmmss on a text given by its characters;
\* the answer is a time text as well
normalize_time_text(t) ==
  LET pm_hour == IF t.hour # 12 THEN t.hour + 12 ELSE t.hour
      am_hour == IF t.hour = 12 THEN 0 ELSE t.hour
      \* after a ValueError: time_str itself when it has two colons, else 7pm
      fallback == IF t.parts = 3 THEN t ELSE hhmmss(19, 0)
  IN
  IF t.parts >= 2
  THEN (IF t.parts = 2 /\ t.numeric
        THEN (IF t.suffix = "pm" THEN hhmmss(pm_hour, t.minute)
              ELSE IF t.suffix = "am" THEN hhmmss(am_hour, t.minute)
              ELSE hhmmss(t.hour, t.minute))
        ELSE fallback)
  ELSE (IF t.numeric
        THEN (IF t.suffix = "pm" THEN hhmmss(pm_hour, 0)
              ELSE IF t.suffix = "am" THEN hhmmss(am_hour, 0)
              ELSE hhmmss(t.hour, 0))
        ELSE fallback)

\* the value an utterance of the model gives a slot it mentions
SlotValue(s) ==
  CASE s = "restaurant" -> "PizzaPalace"
    [] s = "date" -> "15/08/2025"
    [] s = "time" -> "7pm"
    [] s = "party_size" -> "2"
    [] s = "name" -> "John Smith"
    [] s = "email" -> "john@example.com"
    [] s = "booking_reference" -> RefSeq[1]

\* BookingAPIClient.resolve_restaurant_identifier: canonical microsite name or Null
resolve_restaurant_identifier(value) ==
  IF ~Truthy(value) THEN Null
  ELSE IF value \in CatalogSet THEN value ELSE Null

(***************************************************************************)
(* State                                                                   *)
(***************************************************************************)
VARIABLES
  booking_info,       \* sessions[sid]["session_data"]["booking_info"]
  last_intent,        \* sessions[sid]["session_data"]["last_intent"]
  remote,             \* the remote booking API's records: restaurant -> reference -> status
  http_status,        \* status of the last /chat response
  reply,              \* ChatResponse.message of the last turn, by kind
  booking_data,       \* ChatResponse.booking_data of the last turn
  availability_data,  \* ChatResponse.availability_data of the last turn
  calls,              \* the remote booking-API calls of the last turn, in order
  m_pc, m_session, m_intent, m_main, m_clean,  \* the merge-only specification
  e_pc, e_input, e_raw, e_session, e_intent,   \* the extraction-only specification
  k_pc, k_message, k_action,                   \* the classification-only specification
  p_pc, p_remote, p_ora, p_ref, p_result,      \* the lookup-only specification
  c_sessions,         \* the sessions map of the concurrent specification
  c_heap,             \* its booking_info dict objects, by the request that made them
  c_req,              \* its /chat requests: position, session id, message, locals
  a_pc, a_avail, a_result,                     \* the all-restaurants availability specification
  r_pc, r_path, r_text, r_session,             \* the booking-reference specification
  h_history,          \* session["conversation_history"] of the history specification
  h_turns,            \* the /chat turns the session has completed
  h_count,            \* conversation_state.message_count of the last response
  h_status,           \* HTTP status of the last response
  d_pc, d_now, d_text, d_main, d_clean, d_again, \* the date-normalisation specification
  t_pc, t_text, t_out,                         \* the time-normalisation specification
  cl_booking,         \* session_data["booking"] of a main_clean.py session
  cl_said,            \* the action keyword of its last utterance ("none" without one)
  cl_reply,           \* the reply of its last turn, by kind
  cl_calls,           \* the remote booking-API calls of its last turn, in order
  cl_created          \* the create_booking calls of the session that succeeded

turnVars == <<booking_info, last_intent, remote, http_status,
              reply, booking_data, availability_data, calls>>
mergeVars == <<m_pc, m_session, m_intent, m_main, m_clean>>
extractVars == <<e_pc, e_input, e_raw, e_session, e_intent>>
classVars == <<k_pc, k_message, k_action>>
probeVars == <<p_pc, p_remote, p_ora, p_ref, p_result>>
concVars == <<c_sessions, c_heap, c_req>>
availVars == <<a_pc, a_avail, a_result>>
refVars == <<r_pc, r_path, r_text, r_session>>
histVars == <<h_history, h_turns, h_count, h_status>>
dateVars == <<d_pc, d_now, d_text, d_main, d_clean, d_again>>
pureVars == <<availVars, refVars, histVars, dateVars>>
timeVars == <<t_pc, t_text, t_out>>
cleanVars == <<cl_booking, cl_said, cl_reply, cl_calls, cl_created>>
lateVars == <<timeVars, cleanVars>>
chatVars == <<turnVars, mergeVars, extractVars, classVars, probeVars, concVars>>
vars == <<booking_info, last_intent, remote, http_status,
          reply, booking_data, availability_data, calls,
          m_pc, m_session, m_intent, m_main, m_clean,
          e_pc, e_input, e_raw, e_session, e_intent,
          k_pc, k_message, k_action,
          p_pc, p_remote, p_ora, p_ref, p_result,
          c_sessions, c_heap, c_req,
          a_pc, a_avail, a_result,
          r_pc, r_path, r_text, r_session,
          h_history, h_turns, h_count, h_status,
          d_pc, d_now, d_text, d_main, d_clean, d_again,
          t_pc, t_text, t_out,
          cl_booking, cl_said, cl_reply, cl_calls, cl_created>>

Status == {"none", "confirmed", "updated", "cancelled"}

NoBookingData == [present |-> FALSE, reference |-> "-", status |-> "-", restaurant |-> "-"]
\* availability_data: the restaurants it holds; listed is the sequence of
\* restaurant names the reply text gives
NoAvailabilityData == [present |-> FALSE, restaurants |-> {}, listed |-> <<>>]

(***************************************************************************)
(* Utterances and intent extraction                                        *)
(***************************************************************************)
\* An utterance, as the extractors see it: the action its keywords select
\* ("none" when it has none), the slots it mentions and the date text it uses.
Utterance(a, ms, d) == [action |-> a, mentions |-> ms, date |-> d]
SlotsA == {"restaurant", "date", "time"}
SlotsB == {"party_size", "name", "email"}
\* the slot sets an utterance of the model mentions, by the action it asks for
MentionsOf(a) ==
  CASE a = "book" -> {{}, SlotsA, SlotsB, RequiredSet}
    [] a = "none" -> {{}, SlotsA, SlotsB, {"booking_reference"}}
    [] a = "check_availability" -> {{}, SlotsA, {"date", "party_size"}}
    [] a = "get_booking" -> {{}, {"booking_reference"}}
    [] a = "cancel_booking" -> {{}, {"booking_reference"}}
    [] a = "update_booking" ->
         {{}, {"booking_reference"}, {"time"}, {"booking_reference", "time"},
          {"booking_reference", "party_size"}}

\* the utterances of the model that ask for action a; the date text only
\* distinguishes utterances that mention a date
UtterancesOf(a) ==
  UNION {{Utterance(a, ms, d) :
            d \in (IF "date" \in ms THEN DateTexts ELSE {SlotValue("date")})} :
         ms \in MentionsOf(a)}
Utterances == UNION {UtterancesOf(a) : a \in DispatchActions \cup {"none"}}

UtterValue(u, k) ==
  IF k = "action" THEN (IF u.action = "none" THEN Absent ELSE u.action)
  ELSE IF k \notin u.mentions THEN Absent
  ELSE IF k = "date" THEN u.date
  ELSE SlotValue(k)

\* IntentExtractor.extract_booking_intent: only the keys the utterance yields;
\* the all-absent dict stands for the None it returns instead of {}
extract_booking_intent(u) == [k \in Keys |-> UtterValue(u, k)]

\* The keyword lists of extract_booking_intent, in the order it tests them.
cancel_keywords == <<"cancel", "cancelled", "delete", "remove">>
modify_keywords == <<"change", "modify", "update", "reschedule", "move">>
lookup_keywords == <<"check my", "my booking", "my reservation", "booking reference", "find my">>
availability_keywords == <<"availability", "available">>
booking_keywords == <<"book", "reserve", "reservation", "table">>

\* `keyword in phrase` for the keywords above and the phrases of the model
IsSubstring(keyword, phrase) ==
  \/ keyword = phrase
  \/ <<keyword, phrase>> \in
       {<<"cancel", "cancelled">>, <<"move", "remove">>, <<"book", "my booking">>,
        <<"book", "booking reference">>, <<"reservation", "my reservation">>}

\* any(keyword in lower for keyword in keywords); a lowercased message is the
\* set of phrases it is made of
AnyKeywordIn(keywords, lower) ==
  \E i \in 1..Len(keywords) : \E ph \in lower : IsSubstring(keywords[i], ph)

\* variant: the generic booking keywords are tested first
ClassifyActionBookFirst(lower) ==
  IF AnyKeywordIn(booking_keywords, lower) THEN "book"
  ELSE IF AnyKeywordIn(cancel_keywords, lower) THEN "cancel_booking"
  ELSE IF AnyKeywordIn(modify_keywords, lower) THEN "update_booking"
  ELSE IF AnyKeywordIn(lookup_keywords, lower) THEN "get_booking"
  ELSE IF AnyKeywordIn(availability_keywords, lower) THEN "check_availability"
  ELSE Absent

\* extract_booking_intent, the if/elif chain that sets intent['action']
ClassifyAction(lower) ==
  IF AnyKeywordIn(cancel_keywords, lower) THEN "cancel_booking"
  ELSE IF AnyKeywordIn(modify_keywords, lower) THEN "update_booking"
  ELSE IF AnyKeywordIn(lookup_keywords, lower) THEN "get_booking"
  ELSE IF AnyKeywordIn(availability_keywords, lower) THEN "check_availability"
  ELSE IF AnyKeywordIn(booking_keywords, lower) THEN "book"
  ELSE Absent

\* what the LLM intent call does in a turn: it raises, returns text with no JSON
\* object, returns {}, returns the utterance's fields as JSON ("plain"), or
\* returns them with the conversation context it was given filled in ("context")
LLMFailures == {"raise", "nonjson", "emptyobj"}
LLMRaws == LLMFailures \cup {"plain", "context"}
\* the outcomes the turn specification draws: a failure (the three act alike in
\* SelectIntent) and an answer that carries the conversation context
TurnRaws == {"raise", "context"}

\* the JSON object of a parsing LLM answer: every key present, null when unknown
LLMParsed(u, raw, session_booking) ==
  [k \in Keys |->
     IF UtterValue(u, k) # Absent THEN UtterValue(u, k)
     ELSE IF raw = "context" /\ k \in DOMAIN session_booking /\ Truthy(session_booking[k])
     THEN session_booking[k]
     ELSE Null]

\* The characters of a text that may stand for a booking reference: its length,
\* whether it starts with '#', the text after upper(), whether every character
\* is one of A-Z0-9, whether it has a digit, and the first seven characters
\* after the '#'.
RefTexts ==
  {"ABC1234", "abc1234", "XYZ9876", "QRS5555", "1234567", "BOOKING", "TONIGHT", "CONFIRM",
   "PLEASED", "TOMORROW", "ABC123", "ABC12345", "ABC-123", "#ABC12345", "#BOOKING", ""}
RefChars(len, hash, upper, alnum, digit, first7) ==
  [len |-> len, hash |-> hash, upper |-> upper, alnum |-> alnum, digit |-> digit,
   first7 |-> first7]
RefLex(txt) ==
  CASE txt = "abc1234" -> RefChars(7, FALSE, "ABC1234", FALSE, TRUE, "-")
    [] txt \in {"ABC1234", "XYZ9876", "QRS5555", "1234567"} ->
         RefChars(7, FALSE, txt, TRUE, TRUE, "-")
    [] txt \in {"BOOKING", "TONIGHT", "CONFIRM", "PLEASED"} ->
         RefChars(7, FALSE, txt, TRUE, FALSE, "-")
    [] txt = "TOMORROW" -> RefChars(8, FALSE, txt, TRUE, FALSE, "-")
    [] txt = "ABC123" -> RefChars(6, FALSE, txt, TRUE, TRUE, "-")
    [] txt = "ABC12345" -> RefChars(8, FALSE, txt, TRUE, TRUE, "-")
    [] txt = "ABC-123" -> RefChars(7, FALSE, txt, FALSE, TRUE, "-")
    [] txt = "#ABC12345" -> RefChars(9, TRUE, txt, FALSE, TRUE, "ABC1234")
    [] txt = "#BOOKING" -> RefChars(8, TRUE, txt, FALSE, FALSE, "BOOKING")
    [] OTHER -> RefChars(0, FALSE, txt, FALSE, FALSE, "-")

\* re.fullmatch(r"[A-Z0-9]{7}", br) and any(ch.isdigit() for ch in br)
ValidReference(br) == RefLex(br).len = 7 /\ RefLex(br).alnum /\ RefLex(br).digit

\* _extract_intent_with_llm, the booking_reference of the parsed answer
llm_reference(br) ==
  IF ~Truthy(br) THEN br
  ELSE LET br_up == RefLex(br).upper IN
       IF ValidReference(br_up) THEN br_up ELSE Null

excluded_words ==
  {"BOOKING", "REFERENCE", "TOMORROW", "TONIGHT", "CANCEL", "CHANGE", "UPDATE", "MODIFY",
   "CONFIRM", "CONFIRMATION", "CONFIRMING"}

\* variant: any match of a pattern is taken as the reference
rule_referenceUnchecked(message) ==
  LET up == RefLex(message).upper
      x == RefLex(up)
  IN IF x.hash /\ x.first7 # "-" THEN x.first7
     ELSE IF x.len = 7 /\ x.alnum THEN up ELSE Absent
\* extract_booking_intent, booking_ref_patterns on message.upper(), for a message
\* of one word: the patterns that spell a lower-case word never match, '#' and
\* seven characters or a seven-character word do; Absent when no key is set
rule_reference(message) ==
  LET up == RefLex(message).upper
      x == RefLex(up)
      ok(ref) == ref \notin excluded_words /\ RefLex(ref).len = 7 /\ ValidReference(ref)
      by_hash == IF x.hash /\ x.first7 # "-" THEN x.first7 ELSE Absent
      by_word == IF x.len = 7 /\ x.alnum THEN up ELSE Absent
  IN IF by_hash # Absent /\ ok(by_hash) THEN by_hash
     ELSE IF by_word # Absent /\ ok(by_word) THEN by_word
     ELSE Absent

\* BookingAgent._extract_intent_with_llm; EmptyDict stands for None
extract_intent_with_llm(u, raw, session_booking) ==
  IF raw \in LLMFailures THEN EmptyDict
  ELSE LET parsed == LLMParsed(u, raw, session_booking) IN
    [k \in Keys |->
       IF k = "booking_reference"
       THEN llm_reference(parsed[k])
       ELSE IF k = "action"
       THEN (IF parsed[k] \in LLMActions THEN parsed[k] ELSE Null)
       ELSE parsed[k]]

\* variant: no fallback to the rule-based extractor
SelectIntentNoFallback(u, raw, session_booking) ==
  extract_intent_with_llm(u, raw, session_booking)

\* _booking_processor_node, intent selection: LLM first, rule-based if it gave nothing
SelectIntent(u, raw, session_booking) ==
  LET intent == extract_intent_with_llm(u, raw, session_booking) IN
  IF intent = EmptyDict THEN extract_booking_intent(u) ELSE intent

(***************************************************************************)
(* The remote booking API, as BookingAPIClient sees it                     *)
(***************************************************************************)
Slot(t, a) == [time |-> t, available |-> a]
AvailError == [error |-> TRUE, available_slots |-> <<>>]
AvailOk(slots) == [error |-> FALSE, available_slots |-> slots]
\* answers of AvailabilitySearch: an error, no slots, the 19:00 slot free,
\* the 19:00 slot taken, only the 20:00 slot free
AvailResults ==
  {AvailError, AvailOk(<<>>), AvailOk(<<Slot(<<19, 0, 0>>, TRUE)>>),
   AvailOk(<<Slot(<<19, 0, 0>>, FALSE)>>), AvailOk(<<Slot(<<20, 0, 0>>, TRUE)>>)}
\* the answers drawn per restaurant when every restaurant is queried
MultiAvailResults ==
  {AvailError, AvailOk(<<Slot(<<19, 0, 0>>, TRUE)>>), AvailOk(<<Slot(<<19, 0, 0>>, FALSE)>>)}
\* answers of BookingWithStripeToken: an error, a payload without a reference,
\* or a new booking under a reference
CreateResults == {"error", "noref"} \cup Refs

\* what the remote API answers in one turn: the availability answer per
\* restaurant, the answer to create_booking, whether lookups fail, whether
\* update/cancel requests fail (all of them, or those sent to the restaurants of
\* fail_at), and whether an accepted update/cancel answers with a payload that
\* carries no booking reference
NoOracle ==
  [avail |-> [r \in CatalogSet |-> AvailError], create |-> "error",
   get_fail |-> FALSE, fail |-> FALSE, fail_at |-> {}, noref |-> FALSE]

\* one remote call and its answer: slots for an availability search; status is
\* the status of the record a lookup fetched and, for a mutating call, the status
\* its payload reports ("noref" for a payload that carries no booking reference);
\* ref is the reference of the request and, for create_booking, of the answer
Call(op, restaurant, ref, date, party_size, time, ok, slots, status) ==
  [op |-> op, restaurant |-> restaurant, ref |-> ref, date |-> date,
   party_size |-> party_size, time |-> time, ok |-> ok, slots |-> slots,
   status |-> status]

AvailCall(restaurant, date, party_size, res) ==
  Call("check_availability", restaurant, "-", date, party_size, "-", ~res.error,
       res.available_slots, "-")

Result(r, bd, ad, cs, rem) ==
  [reply |-> r, booking_data |-> bd, availability_data |-> ad, calls |-> cs, remote |-> rem]

\* get_booking answers for a reference at a restaurant
GetOk(rem, ora, ref, r) == ~ora.get_fail /\ ref \in Refs /\ rem[r][ref] # "none"
\* update_booking is accepted for a live booking
UpdateOk(rem, ora, ref, r) ==
  /\ ~ora.fail
  /\ r \notin ora.fail_at
  /\ ref \in Refs
  /\ rem[r][ref] \in {"confirmed", "updated"}
\* cancel_booking is accepted for a booking that exists
CancelOk(rem, ora, ref, r) ==
  ~ora.fail /\ r \notin ora.fail_at /\ ref \in Refs /\ rem[r][ref] # "none"

\* variant: the last restaurant at which ok holds
FirstIndexLast(ok) ==
  IF \E i \in 1..Len(Catalog) : ok[Catalog[i]]
  THEN CHOOSE i \in 1..Len(Catalog) :
         ok[Catalog[i]] /\ \A j \in (i + 1)..Len(Catalog) : ~ok[Catalog[j]]
  ELSE 0

\* index of the first restaurant of the catalog at which ok holds, 0 if none
FirstIndex(ok) ==
  IF \E i \in 1..Len(Catalog) : ok[Catalog[i]]
  THEN CHOOSE i \in 1..Len(Catalog) :
         ok[Catalog[i]] /\ \A j \in 1..(i - 1) : ~ok[Catalog[j]]
  ELSE 0

\* variant: a restaurant that answers with an error is asked a second time
ProbeCallsRetried(op, ref, found, ok, status) ==
  LET once == [i \in 1..(IF found = 0 THEN Len(Catalog) ELSE found) |->
                 Call(op, Catalog[i], ref, NoDate, "-", "-", ok[Catalog[i]], <<>>,
                      IF ok[Catalog[i]] THEN status[Catalog[i]] ELSE "-")]
  IN IF found = 0 THEN once \o once ELSE once

\* the calls of `for restaurant_id in _restaurant_metadata.keys(): ...; break on success`
ProbeCalls(op, ref, found, ok, status) ==
  [i \in 1..(IF found = 0 THEN Len(Catalog) ELSE found) |->
     Call(op, Catalog[i], ref, NoDate, "-", "-", ok[Catalog[i]], <<>>,
          IF ok[Catalog[i]] THEN status[Catalog[i]] ELSE "-")]

(***************************************************************************)
(* BookingAgent._process_booking_action, one operator per action           *)
(***************************************************************************)
\* missing_fields of the book branch
Missing(intent) == {f \in RequiredSet : ~Truthy(intent[f])}

AvailableSlots(res) ==
  {i \in 1..Len(res.available_slots) : res.available_slots[i].available}

ProcessBook(intent, rem, ora) ==
  IF Missing(intent) # {}
  THEN \* state["user_input"]: `state` is not defined in this method
       Result("apology", NoBookingData, NoAvailabilityData, <<>>, rem)
  ELSE
  LET normalized_date == normalize_date_text(intent["date"])
      resolved == resolve_restaurant_identifier(intent["restaurant"])
      restaurant_name ==
        IF Truthy(resolved) THEN resolved
        ELSE IF Truthy(intent["restaurant"]) THEN intent["restaurant"] ELSE RESTAURANT_NAME
  IN
  IF normalized_date = NoDate
  THEN Result("ask_valid_date", NoBookingData, NoAvailabilityData, <<>>, rem)
  ELSE IF restaurant_name \notin CatalogSet
  THEN \* get_restaurant_info: restaurant.name of a row that is None
       Result("apology", NoBookingData, NoAvailabilityData, <<>>, rem)
  ELSE
  LET availability_check == ora.avail[restaurant_name]
      c1 == AvailCall(restaurant_name, normalized_date, intent["party_size"], availability_check)
      created == IF ora.create \in Refs /\ rem[restaurant_name][ora.create] # "none"
                 THEN "error" ELSE ora.create
      c2 == Call("create_booking", restaurant_name,
                 IF created \in Refs THEN created ELSE "-", normalized_date,
                 intent["party_size"], intent["time"], created # "error", <<>>,
                 IF created \in Refs THEN "confirmed"
                 ELSE IF created = "noref" THEN "noref" ELSE "-")
  IN
  IF availability_check.error
  THEN Result("availability_error", NoBookingData, NoAvailabilityData, <<c1>>, rem)
  ELSE IF availability_check.available_slots = <<>>
  THEN Result("no_slots", NoBookingData, NoAvailabilityData, <<c1>>, rem)
  ELSE IF created = "error"
  THEN Result("booking_failed", NoBookingData, NoAvailabilityData, <<c1, c2>>, rem)
  ELSE IF created = "noref"
  THEN Result("no_reference", NoBookingData, NoAvailabilityData, <<c1, c2>>, rem)
  ELSE Result("reservation_confirmed",
              [present |-> TRUE, reference |-> created, status |-> "confirmed",
               restaurant |-> "TheHungryUnicorn"],
              NoAvailabilityData, <<c1, c2>>,
              [rem EXCEPT ![restaurant_name][created] = "confirmed"])

ProcessGetBooking(intent, rem, ora) ==
  LET booking_ref == intent["booking_reference"] IN
  IF ~Truthy(booking_ref)
  THEN Result("ask_reference", NoBookingData, NoAvailabilityData, <<>>, rem)
  ELSE
  LET found == FirstIndex([r \in CatalogSet |-> GetOk(rem, ora, booking_ref, r)])
      probes == ProbeCalls("get_booking", booking_ref, found,
                           [r \in CatalogSet |-> GetOk(rem, ora, booking_ref, r)],
                           [r \in CatalogSet |-> rem[r][booking_ref]])
  IN
  IF found = 0
  THEN Result("booking_not_found", NoBookingData, NoAvailabilityData, probes, rem)
  ELSE Result(IF rem[Catalog[found]][booking_ref] = "cancelled"
              THEN "booking_cancelled_details" ELSE "booking_details",
              [present |-> TRUE, reference |-> booking_ref,
               status |-> rem[Catalog[found]][booking_ref], restaurant |-> Catalog[found]],
              NoAvailabilityData, probes, rem)

\* variant: the status of the fetched record is not looked at
FetchedCancelledNever(rem, found, booking_ref) == FALSE

\* booking_exists and booking_status == 'cancelled' (update_booking and cancel_booking)
FetchedCancelled(rem, found, booking_ref) ==
  found # 0 /\ rem[Catalog[found]][booking_ref] = "cancelled"

\* date texts the update branch skips: len(date_text) <= 3 or date_text.startswith('to ')
DateSkipped(date_text) == date_text \in {"to 8", "8"}

ProcessUpdateBooking(intent, rem, ora) ==
  LET booking_ref == intent["booking_reference"] IN
  IF ~Truthy(booking_ref)
  THEN Result("ask_reference", NoBookingData, NoAvailabilityData, <<>>, rem)
  ELSE
  LET found_check == FirstIndex([r \in CatalogSet |-> GetOk(rem, ora, booking_ref, r)])
      probes == ProbeCalls("get_booking", booking_ref, found_check,
                           [r \in CatalogSet |-> GetOk(rem, ora, booking_ref, r)],
                           [r \in CatalogSet |-> rem[r][booking_ref]])
      date_used == Truthy(intent["date"]) /\ ~DateSkipped(intent["date"])
      normalized_date == IF date_used THEN normalize_date_text(intent["date"]) ELSE NoDate
      updates == {k \in {"date", "time", "party_size"} :
                    IF k = "date" THEN date_used ELSE Truthy(intent[k])}
      found == FirstIndex([r \in CatalogSet |-> UpdateOk(rem, ora, booking_ref, r)])
      tries == ProbeCalls("update_booking", booking_ref, found,
                          [r \in CatalogSet |-> UpdateOk(rem, ora, booking_ref, r)],
                          [r \in CatalogSet |-> IF ora.noref THEN "noref" ELSE "updated"])
  IN
  IF FetchedCancelled(rem, found_check, booking_ref)
  THEN Result("already_cancelled", NoBookingData, NoAvailabilityData, probes, rem)
  ELSE IF date_used /\ normalized_date = NoDate
  THEN Result("ask_valid_date", NoBookingData, NoAvailabilityData, probes, rem)
  ELSE IF updates = {}
  THEN Result("ask_what_to_change", NoBookingData, NoAvailabilityData, probes, rem)
  ELSE IF found = 0
  THEN Result("update_failed", NoBookingData, NoAvailabilityData, probes \o tries, rem)
  ELSE Result("booking_updated",
              [present |-> TRUE, reference |-> booking_ref, status |-> "updated",
               restaurant |-> Catalog[found]],
              NoAvailabilityData, probes \o tries,
              [rem EXCEPT ![Catalog[found]][booking_ref] = "updated"])

ProcessCancelBooking(intent, rem, ora) ==
  LET booking_ref == intent["booking_reference"] IN
  IF ~Truthy(booking_ref)
  THEN Result("ask_reference", NoBookingData, NoAvailabilityData, <<>>, rem)
  ELSE
  LET found_check == FirstIndex([r \in CatalogSet |-> GetOk(rem, ora, booking_ref, r)])
      probes == ProbeCalls("get_booking", booking_ref, found_check,
                           [r \in CatalogSet |-> GetOk(rem, ora, booking_ref, r)],
                           [r \in CatalogSet |-> rem[r][booking_ref]])
      found == FirstIndex([r \in CatalogSet |-> CancelOk(rem, ora, booking_ref, r)])
      tries == ProbeCalls("cancel_booking", booking_ref, found,
                          [r \in CatalogSet |-> CancelOk(rem, ora, booking_ref, r)],
                          [r \in CatalogSet |-> IF ora.noref THEN "noref" ELSE "cancelled"])
  IN
  IF FetchedCancelled(rem, found_check, booking_ref)
  THEN Result("already_cancelled", NoBookingData, NoAvailabilityData, probes, rem)
  ELSE IF found = 0
  THEN Result("cancel_failed", NoBookingData, NoAvailabilityData, probes \o tries, rem)
  ELSE Result("booking_cancelled",
              [present |-> TRUE, reference |-> booking_ref, status |-> "cancelled",
               restaurant |-> Catalog[found]],
              NoAvailabilityData, probes \o tries,
              [rem EXCEPT ![Catalog[found]][booking_ref] = "cancelled"])

\* get_restaurants_with_availability: the restaurants with an available slot,
\* a failing query skipped
WithAvailability(ora) ==
  {r \in CatalogSet : ~ora.avail[r].error /\ AvailableSlots(ora.avail[r]) # {}}

\* restaurant_names[:3] of the reply that asks the user to choose
MaxListed == 3

\* get_restaurants_with_availability over the restaurants cat of the database, in
\* their order: those whose answer is no error and has an available slot
get_restaurants_with_availability(cat, avail) ==
  SelectSeq(cat, LAMBDA r : ~avail[r].error /\ AvailableSlots(avail[r]) # {})

\* check_availability without a restaurant: every restaurant of cat is queried
CheckAllRestaurants(cat, avail, normalized_date, party_size, rem) ==
  LET cs == [i \in 1..Len(cat) |-> AvailCall(cat[i], normalized_date, party_size, avail[cat[i]])]
      restaurant_names == get_restaurants_with_availability(cat, avail)
      available_restaurants == {restaurant_names[i] : i \in 1..Len(restaurant_names)}
  IN
  IF restaurant_names = <<>>
  THEN Result("none_available", NoBookingData, NoAvailabilityData, cs, rem)
  ELSE IF Len(restaurant_names) = 1
  THEN Result("availability", NoBookingData,
              [present |-> TRUE, restaurants |-> available_restaurants,
               listed |-> restaurant_names], cs, rem)
  ELSE Result("choose_restaurant", NoBookingData,
              [present |-> TRUE, restaurants |-> available_restaurants,
               listed |-> SubSeq(restaurant_names, 1,
                                 IF Len(restaurant_names) > MaxListed THEN MaxListed
                                 ELSE Len(restaurant_names))], cs, rem)

ProcessCheckAvailability(intent, rem, ora) ==
  LET no_date == ~Truthy(intent["date"])
      no_party == ~Truthy(intent["party_size"])
      normalized_date == normalize_date_text(intent["date"])
      resolved == resolve_restaurant_identifier(intent["restaurant"])
      restaurant_name == IF Truthy(resolved) THEN resolved ELSE intent["restaurant"]
  IN
  IF no_date /\ no_party
  THEN Result("ask_date_and_party", NoBookingData, NoAvailabilityData, <<>>, rem)
  ELSE IF no_party
  THEN \* state["user_input"]: `state` is not defined in this method
       Result("apology", NoBookingData, NoAvailabilityData, <<>>, rem)
  ELSE IF no_date
  THEN Result("ask_date", NoBookingData, NoAvailabilityData, <<>>, rem)
  ELSE IF normalized_date = NoDate
  THEN Result("ask_valid_date", NoBookingData, NoAvailabilityData, <<>>, rem)
  ELSE IF Truthy(intent["restaurant"])
  THEN
    LET res == IF restaurant_name \in CatalogSet THEN ora.avail[restaurant_name] ELSE AvailError
        c1 == AvailCall(restaurant_name, normalized_date, intent["party_size"], res)
    IN
    IF res.error
    THEN Result("availability_error", NoBookingData, NoAvailabilityData, <<c1>>, rem)
    ELSE IF AvailableSlots(res) = {}
    THEN Result("no_availability", NoBookingData, NoAvailabilityData, <<c1>>, rem)
    ELSE Result("availability", NoBookingData,
                [present |-> TRUE, restaurants |-> {restaurant_name},
                 listed |-> <<restaurant_name>>], <<c1>>, rem)
  ELSE CheckAllRestaurants(Catalog, ora.avail, normalized_date, intent["party_size"], rem)

process_booking_action(intent, rem, ora) ==
  CASE intent["action"] = "check_availability" -> ProcessCheckAvailability(intent, rem, ora)
    [] intent["action"] = "book" -> ProcessBook(intent, rem, ora)
    [] intent["action"] = "get_booking" -> ProcessGetBooking(intent, rem, ora)
    [] intent["action"] = "update_booking" -> ProcessUpdateBooking(intent, rem, ora)
    [] intent["action"] = "cancel_booking" -> ProcessCancelBooking(intent, rem, ora)

(***************************************************************************)
(* The /chat turn of backend/main.py                                       *)
(***************************************************************************)
\* the remote answers that the dispatch of this intent can read
OraclesFor(intent) ==
  CASE intent["action"] = "book" /\ Missing(intent) = {}
       /\ normalize_date_text(intent["date"]) # NoDate ->
         \* create_booking is only called after an answer with slots
         {[NoOracle EXCEPT !.avail = [r \in CatalogSet |-> x[1]], !.create = x[2]] :
            x \in {y \in AvailResults \X CreateResults :
                     (y[1].error \/ y[1].available_slots = <<>>) => y[2] = "error"}}
    [] intent["action"] = "check_availability"
       /\ Truthy(intent["date"]) /\ Truthy(intent["party_size"])
       /\ normalize_date_text(intent["date"]) # NoDate ->
         IF Truthy(intent["restaurant"])
         THEN {[NoOracle EXCEPT !.avail = [r \in CatalogSet |-> a]] : a \in AvailResults}
         ELSE {[NoOracle EXCEPT !.avail = f] : f \in [CatalogSet -> MultiAvailResults]}
    [] intent["action"] = "get_booking" /\ Truthy(intent["booking_reference"]) ->
         {[NoOracle EXCEPT !.get_fail = g] : g \in BOOLEAN}
    [] intent["action"] \in {"update_booking", "cancel_booking"}
       /\ Truthy(intent["booking_reference"]) ->
         {o \in {[NoOracle EXCEPT !.get_fail = g, !.fail = f, !.noref = n] :
                   g \in BOOLEAN, f \in BOOLEAN, n \in BOOLEAN} : o.noref => ~o.fail}
    [] OTHER -> {NoOracle}

\* chat_with_agent -> process_message -> ollama_agent -> booking_processor,
\* for an utterance u, the LLM intent outcome raw and the remote answers ora
Chat(u, raw, ora) ==
  LET intent == SelectIntent(u, raw, booking_info)
      session_booking == IF intent # EmptyDict THEN MergeMain(booking_info, intent)
                         ELSE booking_info
      dispatched == intent["action"] \in DispatchActions
  IN
  \E res \in {IF dispatched THEN process_booking_action(intent, remote, ora)
               ELSE Result("llm_reply", NoBookingData, NoAvailabilityData, <<>>, remote)} :
  /\ booking_info' = session_booking
  /\ last_intent' = intent
  /\ remote' = res.remote
  /\ http_status' = 200
  /\ reply' = res.reply
  /\ booking_data' = res.booking_data
  /\ availability_data' = res.availability_data
  /\ calls' = res.calls
  /\ UNCHANGED <<mergeVars, extractVars, classVars, probeVars, concVars, pureVars, lateVars>>

ChatTurn(a) ==
  \E u \in UtterancesOf(a), raw \in TurnRaws :
    \E ora \in OraclesFor(SelectIntent(u, raw, booking_info)) : Chat(u, raw, ora)

ChatBook == ChatTurn("book")
ChatCheckAvailability == ChatTurn("check_availability")
ChatGetBooking == ChatTurn("get_booking")
ChatUpdateBooking == ChatTurn("update_booking")
ChatCancelBooking == ChatTurn("cancel_booking")
\* an utterance with no action keyword
ChatConversation == ChatTurn("none")

\* The reply LLM of _ollama_agent_node fails: its except clause falls through to
\* a return that reads the unbound `e`; the UnboundLocalError leaves the graph
\* and chat_with_agent answers HTTP 500 before anything is written back.
ChatAgentDown ==
  /\ http_status' = 500
  /\ reply' = "http_500"
  /\ booking_data' = NoBookingData
  /\ availability_data' = NoAvailabilityData
  /\ calls' = <<>>
  /\ UNCHANGED <<booking_info, last_intent, remote>>
  /\ UNCHANGED <<mergeVars, extractVars, classVars, probeVars, concVars, pureVars, lateVars>>

ClassIdle ==
  /\ k_pc = "idle"
  /\ k_message = {}
  /\ k_action = Absent

ProbeIdle ==
  /\ p_pc = "idle"
  /\ p_remote = [r \in CatalogSet |-> [b \in Refs |-> "none"]]
  /\ p_ora = NoOracle
  /\ p_ref = Absent
  /\ p_result = Result("-", NoBookingData, NoAvailabilityData, <<>>, p_remote)

Requests == 1..NumRequests
SessionIds == {"s1", "s2"}
\* the slot the message of a concurrent request gives
ConcSlots == {"restaurant", "party_size"}
\* sessions[session_id] before the first request for it; obj names the dict
\* object stored as session_data["booking_info"] (0: session_data is {})
NoSession == [exists |-> FALSE, obj |-> 0, conversation_history |-> <<>>]
NoRequest == [pc |-> "new", sid |-> "-", slot |-> "-", obj |-> 0]

ConcIdle ==
  /\ c_sessions = [sid \in SessionIds |-> NoSession]
  /\ c_heap = [r \in Requests |-> [k \in ConcSlots |-> Absent]]
  /\ c_req = [r \in Requests |-> NoRequest]

NoUtterance == Utterance("none", {}, SlotValue("date"))
ExtractIdle ==
  /\ e_pc = "idle"
  /\ e_input = NoUtterance
  /\ e_raw = "plain"
  /\ e_session = EmptySlots
  /\ e_intent = EmptyDict

MergeSlots == {<<"date", "time", "party_size", "name", "email", "booking_reference",
                 "restaurant">>[i] : i \in 1..NumMergeSlots}
MergeIdle ==
  /\ m_pc = "idle"
  /\ m_session = [k \in MergeSlots |-> Absent]
  /\ m_intent = [k \in MergeSlots |-> Absent]
  /\ m_main = [k \in MergeSlots |-> Absent]
  /\ m_clean = [k \in MergeSlots |-> Absent]

AvailIdle ==
  /\ a_pc = "idle"
  /\ a_avail = [r \in AllRestaurants |-> AvailError]
  /\ a_result = Result("-", NoBookingData, NoAvailabilityData, <<>>, remote)

RefIdle ==
  /\ r_pc = "idle"
  /\ r_path = "-"
  /\ r_text = "-"
  /\ r_session = [booking_reference |-> Absent]

HistIdle ==
  /\ h_history = <<>>
  /\ h_turns = 0
  /\ h_count = 0
  /\ h_status = 0

DateIdle ==
  /\ d_pc = "idle"
  /\ d_now = Now
  /\ d_text = NoDateText
  /\ d_main = NoDate
  /\ d_clean = NoDate
  /\ d_again = NoDate

TimeIdle ==
  /\ t_pc = "idle"
  /\ t_text = NoTimeText
  /\ t_out = NoTimeText

\* session_data['booking'] of main_clean.py: the keys it holds, and the values of
\* the keys whose value a branch reads (0 for no reference)
CleanKeys == {"action", "date", "time", "party_size", "name", "email", "phone", "reference"}
CleanBooking(keys, action, date, time, reference) ==
  [keys |-> keys, action |-> action, date |-> date, time |-> time,
   reference |-> reference]
NoCleanBooking == CleanBooking({}, "-", NoDateText, NoTimeText, 0)
CleanIdle ==
  /\ cl_booking = NoCleanBooking
  /\ cl_said = "-"
  /\ cl_reply = "-"
  /\ cl_calls = <<>>
  /\ cl_created = 0

LateIdle == TimeIdle /\ CleanIdle

\* the state after construction: sessions = {}, no booking at the remote API
TurnIdle ==
  /\ booking_info = EmptySlots
  /\ last_intent = EmptyDict
  /\ remote = [r \in CatalogSet |-> [b \in Refs |-> "none"]]
  /\ http_status = 0
  /\ reply = "-"
  /\ booking_data = NoBookingData
  /\ availability_data = NoAvailabilityData
  /\ calls = <<>>

Init ==
  /\ TurnIdle
  /\ MergeIdle
  /\ ExtractIdle
  /\ ClassIdle
  /\ ProbeIdle
  /\ ConcIdle
  /\ AvailIdle
  /\ RefIdle
  /\ HistIdle
  /\ DateIdle
  /\ LateIdle

Next ==
  \/ ChatBook
  \/ ChatCheckAvailability
  \/ ChatGetBooking
  \/ ChatUpdateBooking
  \/ ChatCancelBooking
  \/ ChatConversation
  \/ ChatAgentDown

Spec == Init /\ [][Next]_vars

(***************************************************************************)
(* SpecMerge: the merge step of both backends on drawn inputs              *)
(***************************************************************************)
MergeValues == {"v1", "v2"}
\* slots for which main_clean.py's extractor can yield an empty value:
\* party_size = int("0"), name = "".strip().title()
CleanNullable == {"party_size", "name"}

InitMerge ==
  /\ m_pc = "init"
  /\ m_session \in [MergeSlots -> MergeValues \cup {Absent}]
  /\ m_intent \in [MergeSlots -> MergeValues \cup {Absent, Null}]
  /\ m_main = m_session
  /\ m_clean = m_session
  /\ TurnIdle
  /\ ExtractIdle
  /\ ClassIdle
  /\ ProbeIdle
  /\ ConcIdle
  /\ AvailIdle
  /\ RefIdle
  /\ HistIdle
  /\ DateIdle
  /\ LateIdle

\* _booking_processor_node, lines 855-866
ApplyMergeMain ==
  /\ m_pc = "init"
  /\ m_main' = MergeMain(m_session, m_intent)
  /\ m_pc' = "main"
  /\ UNCHANGED <<m_session, m_intent, m_clean, turnVars, extractVars, classVars, probeVars, concVars, pureVars, lateVars>>

\* OllamaAI.generate_response, lines 572-575
ApplyMergeClean ==
  /\ m_pc = "init"
  /\ \A k \in MergeSlots : m_intent[k] = Null => k \in CleanNullable
  /\ m_clean' = MergeClean(m_session, m_intent)
  /\ m_pc' = "clean"
  /\ UNCHANGED <<m_session, m_intent, m_main, turnVars, extractVars, classVars, probeVars, concVars, pureVars, lateVars>>

NextMerge == ApplyMergeMain \/ ApplyMergeClean

SpecMerge == InitMerge /\ [][NextMerge]_vars

(***************************************************************************)
(* SpecExtract: intent selection of the booking processor on drawn inputs  *)
(***************************************************************************)
FullSlots == [k \in Slots |-> SlotValue(k)]

InitExtract ==
  /\ e_pc = "init"
  /\ e_input \in Utterances
  /\ e_raw \in LLMRaws
  /\ e_session \in {EmptySlots, FullSlots}
  /\ e_intent = EmptyDict
  /\ TurnIdle
  /\ MergeIdle
  /\ ClassIdle
  /\ ProbeIdle
  /\ ConcIdle
  /\ AvailIdle
  /\ RefIdle
  /\ HistIdle
  /\ DateIdle
  /\ LateIdle

\* _booking_processor_node, lines 848-852
ExtractStep ==
  /\ e_pc = "init"
  /\ e_intent' = SelectIntent(e_input, e_raw, e_session)
  /\ e_pc' = "done"
  /\ UNCHANGED <<e_input, e_raw, e_session, turnVars, mergeVars, classVars, probeVars, concVars, pureVars, lateVars>>

NextExtract == ExtractStep

SpecExtract == InitExtract /\ [][NextExtract]_vars

(***************************************************************************)
(* SpecClassify: the keyword classification on drawn messages              *)
(***************************************************************************)
\* the phrases a message of the model is made of
Phrases == {"cancel", "remove", "change", "my booking", "my reservation",
            "available", "book", "table", "hello"}

InitClassify ==
  /\ k_pc = "init"
  /\ k_message \in SUBSET Phrases
  /\ k_action = Absent
  /\ TurnIdle
  /\ MergeIdle
  /\ ExtractIdle
  /\ ProbeIdle
  /\ ConcIdle
  /\ AvailIdle
  /\ RefIdle
  /\ HistIdle
  /\ DateIdle
  /\ LateIdle

\* extract_booking_intent, lines 469-499
ClassifyStep ==
  /\ k_pc = "init"
  /\ k_action' = ClassifyAction(k_message)
  /\ k_pc' = "done"
  /\ UNCHANGED <<k_message, turnVars, mergeVars, extractVars, probeVars, concVars, pureVars, lateVars>>

NextClassify == ClassifyStep

SpecClassify == InitClassify /\ [][NextClassify]_vars

(***************************************************************************)
(* SpecProbe: the dispatch of get_booking, update_booking and              *)
(* cancel_booking on drawn remote records                                  *)
(***************************************************************************)
InitProbe ==
  /\ p_pc = "init"
  /\ p_remote \in [CatalogSet -> [Refs -> Status]]
  /\ p_ora \in {[NoOracle EXCEPT !.get_fail = g, !.fail_at = f] :
                 g \in BOOLEAN, f \in SUBSET CatalogSet}
  /\ p_ref \in Refs \cup {Absent}
  /\ p_result = Result("-", NoBookingData, NoAvailabilityData, <<>>, p_remote)
  /\ TurnIdle
  /\ MergeIdle
  /\ ExtractIdle
  /\ ClassIdle
  /\ ConcIdle
  /\ AvailIdle
  /\ RefIdle
  /\ HistIdle
  /\ DateIdle
  /\ LateIdle

\* _process_booking_action, lines 1138-1211
ProbeGet ==
  /\ p_pc = "init"
  /\ p_result' = ProcessGetBooking([EmptyDict EXCEPT !["action"] = "get_booking",
                                                     !["booking_reference"] = p_ref],
                                   p_remote, p_ora)
  /\ p_pc' = "get"
  /\ UNCHANGED <<p_remote, p_ora, p_ref, turnVars, mergeVars, extractVars, classVars,
                 concVars, pureVars, lateVars>>

\* _process_booking_action, lines 1213-1294, for a change of the time
ProbeUpdate ==
  /\ p_pc = "init"
  /\ p_result' = ProcessUpdateBooking([EmptyDict EXCEPT !["action"] = "update_booking",
                                                        !["booking_reference"] = p_ref,
                                                        !["time"] = "7pm"],
                                      p_remote, p_ora)
  /\ p_pc' = "update"
  /\ UNCHANGED <<p_remote, p_ora, p_ref, turnVars, mergeVars, extractVars, classVars,
                 concVars, pureVars, lateVars>>

\* _process_booking_action, lines 1296-1346
ProbeCancel ==
  /\ p_pc = "init"
  /\ p_result' = ProcessCancelBooking([EmptyDict EXCEPT !["action"] = "cancel_booking",
                                                        !["booking_reference"] = p_ref],
                                      p_remote, p_ora)
  /\ p_pc' = "cancel"
  /\ UNCHANGED <<p_remote, p_ora, p_ref, turnVars, mergeVars, extractVars, classVars,
                 concVars, pureVars, lateVars>>

NextProbe ==
  \/ ProbeGet
  \/ ProbeUpdate
  \/ ProbeCancel

SpecProbe == InitProbe /\ [][NextProbe]_vars

(***************************************************************************)
(* SpecConc: concurrent /chat requests                                     *)
(*                                                                         *)
(* chat_with_agent is a coroutine: the event loop can run another request  *)
(* wherever it awaits (the LLM calls of the agent and of the intent        *)
(* extraction, the remote booking calls of the dispatch).  A step below is *)
(* a stretch of one request between such awaits.  Dict objects are held by *)
(* reference, as in the code: a request works on the booking_info object   *)
(* it read, which is the stored one when session_data is not empty.        *)
(***************************************************************************)
\* variant: every session id is served from one entry
SessionEntryShared(session_id) == "s1"

\* sessions[session_id]: the entry of the map the request works on
SessionEntry(session_id) == session_id

\* session["session_data"].get("booking_info", {}) as a value
BookingInfoOf(session_id) ==
  IF c_sessions[session_id].obj = 0 THEN [k \in ConcSlots |-> Absent]
  ELSE c_heap[c_sessions[session_id].obj]

InitConc ==
  /\ ConcIdle
  /\ TurnIdle
  /\ MergeIdle
  /\ ExtractIdle
  /\ ClassIdle
  /\ ProbeIdle
  /\ AvailIdle
  /\ RefIdle
  /\ HistIdle
  /\ DateIdle
  /\ LateIdle

\* chat_with_agent, lines 1505-1524, up to the first await of process_message:
\* the entry is created if new; `session_data or {}` and
\* .get("booking_info", {}) give the stored object, or a new empty one
ChatBegin(r) ==
  \E sid \in SessionIds, k \in ConcSlots :
    LET e == SessionEntry(sid) IN
    /\ c_req[r].pc = "new"
    /\ c_sessions' = [c_sessions EXCEPT ![e].exists = TRUE]
    /\ c_req' = [c_req EXCEPT ![r] =
                   [pc |-> "running", sid |-> sid, slot |-> k,
                    obj |-> IF c_sessions[e].obj = 0 THEN r ELSE c_sessions[e].obj]]
    /\ UNCHANGED c_heap

\* _booking_processor_node, lines 855-866: the merge, in place, into the object
\* the request holds
ChatMerge(r) ==
  /\ c_req[r].pc = "running"
  /\ c_heap' = [c_heap EXCEPT ![c_req[r].obj][c_req[r].slot] = SlotValue(c_req[r].slot)]
  /\ c_req' = [c_req EXCEPT ![r].pc = "merged"]
  /\ UNCHANGED c_sessions

\* chat_with_agent, lines 1526-1531: write-back of session_data and the two
\* appends to conversation_history
ChatFinish(r) ==
  LET e == SessionEntry(c_req[r].sid) IN
  /\ c_req[r].pc = "merged"
  /\ c_sessions' = [c_sessions EXCEPT
                      ![e].obj = c_req[r].obj,
                      ![e].conversation_history =
                         @ \o <<[role |-> "user", turn |-> r],
                                [role |-> "assistant", turn |-> r]>>]
  /\ c_req' = [c_req EXCEPT ![r].pc = "done"]
  /\ UNCHANGED c_heap

\* the agent node raises before the processor runs: HTTP 500, nothing written back
ChatRaise(r) ==
  /\ c_req[r].pc = "running"
  /\ c_req' = [c_req EXCEPT ![r].pc = "failed"]
  /\ UNCHANGED <<c_sessions, c_heap>>

ConcStep(r) ==
  /\ \/ ChatBegin(r)
     \/ ChatMerge(r)
     \/ ChatFinish(r)
     \/ ChatRaise(r)
  /\ UNCHANGED <<turnVars, mergeVars, extractVars, classVars, probeVars, pureVars, lateVars>>

NextConc == \E r \in Requests : ConcStep(r)

SpecConc == InitConc /\ [][NextConc]_vars

(***************************************************************************)
(* SpecAvail: check_availability without a restaurant, on the whole table  *)
(***************************************************************************)
InitAvail ==
  /\ TurnIdle
  /\ LateIdle
  /\ a_pc = "start"
  /\ a_avail \in [AllRestaurants -> MultiAvailResults]
  /\ a_result = Result("-", NoBookingData, NoAvailabilityData, <<>>, remote)
  /\ MergeIdle
  /\ ExtractIdle
  /\ ClassIdle
  /\ ProbeIdle
  /\ ConcIdle
  /\ RefIdle
  /\ HistIdle
  /\ DateIdle
  /\ LateIdle

\* the dispatch of {action: check_availability, date, party_size} when the
\* database holds every restaurant of the metadata table
CheckEveryRestaurant ==
  /\ a_pc = "start"
  /\ a_pc' = "done"
  /\ a_result' = CheckAllRestaurants(RestaurantMetadata, a_avail,
                                      normalize_date_text(SlotValue("date")),
                                      SlotValue("party_size"), remote)
  /\ UNCHANGED <<a_avail, chatVars, lateVars, refVars, histVars, dateVars>>

NextAvail == CheckEveryRestaurant

SpecAvail == InitAvail /\ [][NextAvail]_vars

(***************************************************************************)
(* SpecRef: the booking reference a turn stores, on drawn texts            *)
(***************************************************************************)
InitRef ==
  /\ r_pc = "start"
  /\ r_path \in {"llm", "rules"}
  /\ r_text \in RefTexts
  /\ r_session \in {[booking_reference |-> Absent], [booking_reference |-> RefSeq[1]]}
  /\ TurnIdle
  /\ MergeIdle
  /\ ExtractIdle
  /\ ClassIdle
  /\ ProbeIdle
  /\ ConcIdle
  /\ AvailIdle
  /\ HistIdle
  /\ DateIdle
  /\ LateIdle

\* the reference of the intent on the path taken, merged into booking_info
StoreReference ==
  /\ r_pc = "start"
  /\ r_pc' = "done"
  /\ LET intent == [booking_reference |->
                      IF r_path = "llm"
                      THEN llm_reference(IF r_text = "" THEN Null ELSE r_text)
                      ELSE rule_reference(r_text)]
     IN r_session' = MergeMain(r_session, intent)
  /\ UNCHANGED <<r_path, r_text, chatVars, lateVars, availVars, histVars, dateVars>>

NextRef == StoreReference

SpecRef == InitRef /\ [][NextRef]_vars

(***************************************************************************)
(* SpecHistory: the conversation history of one session over many turns    *)
(***************************************************************************)
\* turns of the session the model follows
MaxTurns == 64
\* len(session["conversation_history"]) > 60, conversation[:6], conversation[-50:]
MaxHistory == 60
KeepFirst == 6
KeepLast == 50

\* one entry of conversation_history: the content is named by the turn it is of
HistoryEntry(role, turn) == [role |-> role, turn |-> turn]

\* variant: one entry fewer kept at the front, six more at the back
PruneHistoryOdd(conversation) ==
  IF Len(conversation) > MaxHistory
  THEN SubSeq(conversation, 1, KeepFirst - 1)
       \o SubSeq(conversation, Len(conversation) - KeepLast - 5, Len(conversation))
  ELSE conversation
\* the pruning of chat_with_agent
PruneHistory(conversation) ==
  IF Len(conversation) > MaxHistory
  THEN SubSeq(conversation, 1, KeepFirst)
       \o SubSeq(conversation, Len(conversation) - KeepLast + 1, Len(conversation))
  ELSE conversation

InitHistory ==
  /\ HistIdle
  /\ TurnIdle
  /\ MergeIdle
  /\ ExtractIdle
  /\ ClassIdle
  /\ ProbeIdle
  /\ ConcIdle
  /\ AvailIdle
  /\ RefIdle
  /\ DateIdle
  /\ LateIdle

\* a /chat turn that answers: both messages appended, the history pruned,
\* message_count computed from what is left
HistoryTurn ==
  /\ h_turns < MaxTurns
  /\ h_turns' = h_turns + 1
  /\ h_history' = PruneHistory(h_history \o <<HistoryEntry("user", h_turns + 1),
                                                HistoryEntry("assistant", h_turns + 1)>>)
  /\ h_count' = Len(h_history') \div 2
  /\ h_status' = 200
  /\ UNCHANGED <<chatVars, lateVars, availVars, refVars, dateVars>>

\* a /chat turn whose process_message raises: HTTP 500, nothing appended
HistoryTurnFails ==
  /\ h_turns < MaxTurns
  /\ h_status' = 500
  /\ UNCHANGED <<h_history, h_turns, h_count>>
  /\ UNCHANGED <<chatVars, lateVars, availVars, refVars, dateVars>>

NextHistory ==
  \/ HistoryTurn
  \/ HistoryTurnFails

SpecHistory == InitHistory /\ [][NextHistory]_vars

(***************************************************************************)
(* SpecDate: normalize_date_text of both backends on drawn texts and days  *)
(***************************************************************************)
\* the days drawn for datetime.now(): a week from Monday to Sunday, a day of a
\* leap year before its 29 February, the last day of a year, a 1 March
DateNows ==
  {<<2025, 8, d>> : d \in 11..17} \cup {<<2024, 2, 10>>, <<2024, 12, 31>>, <<2025, 3, 1>>}

\* the widths a number can be written with in a %m or %d field
Widths(n) == IF n >= 10 THEN {2} ELSE {1, 2}
DrawnYears == {2024, 2025}
DrawnMonths == {2, 8, 12, 13}
DrawnDays == {1, 29, 30, 31}
DigitTexts ==
  UNION {UNION {UNION {
    {DateText("digits", "", sep, y, 4, m, wm, d, wd) :
       sep \in {"-", "/"}, wm \in Widths(m), wd \in Widths(d)}
    \cup {DateText("digits", "", sep, d, wd, m, wm, y, 4) :
            sep \in {"-", "/"}, wm \in Widths(m), wd \in Widths(d)}
    \cup {DateText("digits", "", sep, d, 2, m, 2, y % 100, 2) : sep \in {"-", "/"}}
    : d \in DrawnDays} : m \in DrawnMonths} : y \in DrawnYears}
MonthDayTexts ==
  {DateText("monthday", w, "", d, IF d >= 10 THEN 2 ELSE 1, 0, 0, 0, 0) :
     w \in {"january", "february", "aug", "august", "december"},
     d \in {1, 14, 28, 29, 30, 31}}
WeekdayTexts ==
  {DateText("weekday", weekdays[i], "", n, 0, 0, 0, 0, 0) : i \in 1..Len(weekdays), n \in {0, 1}}
WordTexts == {DateText("word", w, "", 0, 0, 0, 0, 0, 0) : w \in {"today", "tomorrow", "soon"}}
DrawnDateTexts == DigitTexts \cup MonthDayTexts \cup WeekdayTexts \cup WordTexts

InitDate ==
  /\ d_pc = "start"
  /\ d_now \in DateNows
  /\ d_text \in DrawnDateTexts
  /\ d_main = NoDate
  /\ d_clean = NoDate
  /\ d_again = NoDate
  /\ TurnIdle
  /\ MergeIdle
  /\ ExtractIdle
  /\ ClassIdle
  /\ ProbeIdle
  /\ ConcIdle
  /\ AvailIdle
  /\ RefIdle
  /\ HistIdle
  /\ LateIdle

\* both functions on the text, and main.py's on the ISO text of its own answer
NormalizeDate ==
  /\ d_pc = "start"
  /\ d_pc' = "done"
  /\ d_main' = main_normalize_date_text(d_text, d_now)
  /\ d_clean' = clean_normalize_date_text(d_text, d_now)
  /\ d_again' = IF d_main' = NoDate THEN NoDate
                ELSE main_normalize_date_text(isoformat(d_main'), d_now)
  /\ UNCHANGED <<d_now, d_text, chatVars, lateVars, availVars, refVars, histVars>>

NextDate == NormalizeDate

SpecDate == InitDate /\ [][NextDate]_vars

(***************************************************************************)
(* SpecTime: _normalize_time_to_hhmmss on drawn texts                      *)
(***************************************************************************)
\* the texts drawn: every hour 0..23 written with one or two digits, alone,
\* with minutes and with minutes and seconds, with and without am/pm; and
\* texts of one, two and three groups that are no numbers
HourTexts == {<<h, w>> : h \in 0..23, w \in {1, 2}} \ {<<h, 1>> : h \in 10..23}
DrawnMinutes == {0, 30, 59}
DrawnTimeTexts ==
  {TimeText(1, TRUE, x[1], x[2], 0, 0, sfx) : x \in HourTexts, sfx \in {"", "am", "pm"}}
  \cup {TimeText(2, TRUE, x[1], x[2], m, 0, sfx) :
          x \in HourTexts, m \in DrawnMinutes, sfx \in {"", "am", "pm"}}
  \cup {TimeText(3, TRUE, x[1], x[2], m, 0, sfx) :
          x \in HourTexts, m \in DrawnMinutes, sfx \in {"", "pm"}}
  \cup {TimeText(n, FALSE, 0, 0, 0, 0, "") : n \in 1..3}

InitTime ==
  /\ t_pc = "start"
  /\ t_text \in DrawnTimeTexts
  /\ t_out = NoTimeText
  /\ TurnIdle
  /\ MergeIdle
  /\ ExtractIdle
  /\ ClassIdle
  /\ ProbeIdle
  /\ ConcIdle
  /\ AvailIdle
  /\ RefIdle
  /\ HistIdle
  /\ DateIdle
  /\ CleanIdle

NormalizeTime ==
  /\ t_pc = "start"
  /\ t_pc' = "done"
  /\ t_out' = normalize_time_text(t_text)
  /\ UNCHANGED <<t_text, chatVars, pureVars, cleanVars>>

NextTime == NormalizeTime

SpecTime == InitTime /\ [][NextTime]_vars

(***************************************************************************)
(* SpecClean: the turns of one session of main_clean.py                    *)
(***************************************************************************)
\* the texts an utterance of the model gives the date and the time: "tomorrow"
\* and "for 4" (what r'(\w+ \d{1,2})' takes from "a table for 4 people");
\* "19:00", "19:30" and "7pm"
CleanDateTexts ==
  {DateText("word", "tomorrow", "", 0, 0, 0, 0, 0, 0),
   DateText("monthday", "for", "", 4, 1, 0, 0, 0, 0)}
CleanTimeTexts ==
  {TimeText(2, TRUE, 19, 2, 0, 0, ""), TimeText(2, TRUE, 19, 2, 30, 0, ""),
   TimeText(1, TRUE, 7, 1, 0, 0, "pm")}

\* extract_booking_intent: the intent of an utterance.  'action' is set only
\* when a keyword is in the utterance; the other keys come from their patterns.
CleanIntents ==
  {[keys |-> ks \cup (IF a = "-" THEN {} ELSE {"action"})
               \cup (IF d = NoDateText THEN {} ELSE {"date"})
               \cup (IF t = NoTimeText THEN {} ELSE {"time"}),
    action |-> a, date |-> d, time |-> t] :
     ks \in SUBSET {"party_size", "name", "email", "phone"},
     a \in {"-", "book", "check_availability"},
     d \in CleanDateTexts \cup {NoDateText},
     t \in CleanTimeTexts \cup {NoTimeText}}

\* {**session_data.get('booking', {}), **booking_intent}
clean_merge(booking, intent) ==
  CleanBooking(booking.keys \cup intent.keys,
               IF "action" \in intent.keys THEN intent.action ELSE booking.action,
               IF "date" \in intent.keys THEN intent.date ELSE booking.date,
               IF "time" \in intent.keys THEN intent.time ELSE booking.time,
               booking.reference)

\* the answers of the availability search: an error, or the slots of the day
CleanSlot(hour, minute, available) == [time |-> hhmmss(hour, minute), available |-> available]
AvailabilityAnswers ==
  {[error |-> TRUE, available_slots |-> {}]}
  \cup {[error |-> FALSE, available_slots |-> ss] :
          ss \in {{}, {CleanSlot(19, 0, TRUE)}, {CleanSlot(19, 0, FALSE)}}}

\* text[:2] of a time text: the hour digits it starts with (at most two) and,
\* after a one-digit hour, the character that follows
time_prefix(t) ==
  [digits |-> IF t.wh >= 2 THEN 2 ELSE t.wh,
   hour |-> t.hour,
   next |-> IF t.wh >= 2 THEN ""
            ELSE IF t.parts >= 2 THEN ":"
            ELSE IF t.suffix = "pm" THEN "p"
            ELSE IF t.suffix = "am" THEN "a" ELSE ""]
\* s.get('time','').startswith(intent['time'][:2])
slot_startswith(slot_time, t) ==
  LET p == time_prefix(t)
      q == time_prefix(slot_time)
  IN IF p.digits = 1 /\ p.next = ""
     THEN (IF q.digits = 2 THEN q.hour \div 10 = p.hour ELSE q.hour = p.hour)
     ELSE p = q

CleanCheckCall(date, answer) ==
  [op |-> "check_availability", date |-> date, time |-> NoTimeText,
   answer |-> answer, ok |-> ~answer.error]
CleanCreateCall(date, time, ok) ==
  [op |-> "create_booking", date |-> date, time |-> time,
   answer |-> [error |-> ~ok, available_slots |-> {}], ok |-> ok]
CleanResult(booking, made, data) == [booking |-> booking, calls |-> made, data |-> data]

\* process_booking_action, branch 'check_availability'.  The keys it adds to the
\* session (last_checked_date, last_checked_party_size, available_slots) are read
\* by no branch and are left out.
clean_check_availability(intent, answer) ==
  IF ~({"date", "party_size"} \subseteq intent.keys) THEN CleanResult(intent, <<>>, "none")
  ELSE LET normalized_date == clean_normalize_date_text(intent.date, Now) IN
       IF normalized_date = NoDate THEN CleanResult(intent, <<>>, "none")
       ELSE CleanResult(intent, <<CleanCheckCall(normalized_date, answer)>>,
                        IF answer.error THEN "none" ELSE "availability")

\* process_booking_action, branch 'book'
clean_book(intent, answer, created_ok, reference) ==
  LET clean_required_fields == {"date", "time", "party_size", "name", "email"}
      normalized_date == clean_normalize_date_text(intent.date, Now)
      check == CleanCheckCall(normalized_date, answer)
      slot_ok == \E s \in answer.available_slots :
                    slot_startswith(s.time, intent.time) /\ s.available
  IN IF ~(clean_required_fields \subseteq intent.keys) THEN CleanResult(intent, <<>>, "none")
     ELSE IF normalized_date = NoDate THEN CleanResult(intent, <<>>, "none")
     ELSE IF ~answer.error /\ ~slot_ok THEN CleanResult(intent, <<check>>, "none")
     ELSE IF ~created_ok
     THEN CleanResult(intent,
                      <<check, CleanCreateCall(normalized_date, intent.time, FALSE)>>,
                      "none")
     ELSE CleanResult(CleanBooking(intent.keys \cup {"reference"}, intent.action,
                                   isoformat(normalized_date), intent.time, reference),
                      <<check, CleanCreateCall(normalized_date, intent.time, TRUE)>>,
                      "booking")

\* process_booking_action on the merged intent
clean_process_booking_action(intent, answer, created_ok, reference) ==
  IF intent.action = "check_availability" THEN clean_check_availability(intent, answer)
  ELSE IF intent.action = "book" THEN clean_book(intent, answer, created_ok, reference)
  ELSE CleanResult(intent, <<>>, "none")

\* generate_response: an utterance that gives no intent goes to the LLM; any
\* other is merged into the session and processed, and the LLM writes the reply
\* when the processing gave neither booking nor availability data
clean_generate_response(booking, intent, answer, created_ok, reference) ==
  IF intent.keys = {} THEN CleanResult(booking, <<>>, "none")
  ELSE clean_process_booking_action(clean_merge(booking, intent), answer, created_ok,
                                    reference)

InitClean ==
  /\ TurnIdle
  /\ MergeIdle
  /\ ExtractIdle
  /\ ClassIdle
  /\ ProbeIdle
  /\ ConcIdle
  /\ AvailIdle
  /\ RefIdle
  /\ HistIdle
  /\ DateIdle
  /\ TimeIdle
  /\ CleanIdle

\* POST /chat of main_clean.py: one turn of the session
CleanTurn ==
  /\ cl_created < MaxCleanBookings
  /\ \E intent \in CleanIntents :
       \E res \in {clean_generate_response(cl_booking, intent, answer, created_ok,
                                           cl_created + 1) :
                     answer \in AvailabilityAnswers, created_ok \in BOOLEAN} :
         /\ cl_booking' = res.booking
         /\ cl_said' = (IF "action" \in intent.keys THEN intent.action ELSE "none")
         /\ cl_reply' = (IF res.data = "none" THEN "llm" ELSE res.data)
         /\ cl_calls' = res.calls
         /\ cl_created' = cl_created
                          + (IF \E i \in 1..Len(res.calls) :
                                  res.calls[i].op = "create_booking" /\ res.calls[i].ok
                             THEN 1 ELSE 0)
  /\ UNCHANGED <<chatVars, pureVars, timeVars>>

NextClean == CleanTurn

SpecClean == InitClean /\ [][NextClean]_vars

(***************************************************************************)
(* Claims                                                                  *)
(***************************************************************************)
HasCall(cs, op) == \E i \in 1..Len(cs) : cs[i].op = op
FetchedStatus(cs, ref, st) ==
  \E i \in 1..Len(cs) :
    cs[i].op = "get_booking" /\ cs[i].ref = ref /\ cs[i].ok /\ cs[i].status = st
TurnDispatched(a) == http_status = 200 /\ last_intent["action"] = a

\* C1: create_booking is sent only right after an availability check for the
\* same (normalized date, party_size, restaurant) that returned a slot marked
\* available whose time is the requested time.
C1_BookOnlyAfterMatchingAvailability ==
  \A i \in 1..Len(calls) :
    calls[i].op = "create_booking" =>
      /\ i > 1
      /\ calls[i - 1].op = "check_availability"
      /\ calls[i - 1].ok
      /\ calls[i - 1].date = calls[i].date
      /\ calls[i - 1].party_size = calls[i].party_size
      /\ calls[i - 1].restaurant = calls[i].restaurant
      /\ \E j \in 1..Len(calls[i - 1].slots) :
           /\ calls[i - 1].slots[j].available
           /\ calls[i - 1].slots[j].time = normalize_time_to_hhmmss(calls[i].time)

\* C2: a cancel_booking dispatched right after a successful cancel of the same
\* reference, whose lookup reads the record as cancelled, makes no remote cancel
\* call, replies "already cancelled" and leaves the remote records as they were.
C2_SecondCancelIsIdempotent ==
  [][(/\ reply = "booking_cancelled"
      /\ http_status' = 200
      /\ last_intent'["action"] = "cancel_booking"
      /\ last_intent'["booking_reference"] = booking_data.reference
      /\ FetchedStatus(calls', booking_data.reference, "cancelled"))
     => (/\ reply' = "already_cancelled"
         /\ ~HasCall(calls', "cancel_booking")
         /\ ~booking_data'.present
         /\ remote' = remote)]_vars

\* C2 witness: a cancel dispatch answered "already cancelled" on a record the
\* remote API holds as cancelled, with no cancel call made.
C2_Witness ==
  /\ TurnDispatched("cancel_booking")
  /\ reply = "already_cancelled"
  /\ FetchedStatus(calls, last_intent["booking_reference"], "cancelled")
  /\ ~HasCall(calls, "cancel_booking")
  /\ \E r \in CatalogSet : remote[r][last_intent["booking_reference"]] = "cancelled"

\* C3: an update_booking dispatch whose lookup fetched a cancelled record is
\* answered "already cancelled" and makes no remote update_booking call.
C3_UpdateOfCancelledRejected ==
  (/\ TurnDispatched("update_booking")
   /\ \E b \in Refs : FetchedStatus(calls, b, "cancelled"))
  => (/\ reply = "already_cancelled"
      /\ ~HasCall(calls, "update_booking")
      /\ ~booking_data.present)

\* C3 witness: an update dispatch with a new time, refused on a cancelled record.
C3_Witness ==
  /\ TurnDispatched("update_booking")
  /\ Truthy(last_intent["time"])
  /\ FetchedStatus(calls, last_intent["booking_reference"], "cancelled")
  /\ reply = "already_cancelled"

\* C4: in both backends, merging an intent in which slot X is absent or empty
\* leaves the session's value of X unchanged.
C4_AbsencePreserves ==
  /\ m_pc = "main" =>
       \A k \in MergeSlots : ~Truthy(m_intent[k]) => m_main[k] = m_session[k]
  /\ m_pc = "clean" =>
       \A k \in MergeSlots : ~Truthy(m_intent[k]) => m_clean[k] = m_session[k]

\* C5: in both backends, merging an intent in which slot X carries a non-empty
\* value v leaves the session with X = v, whatever X held before.
C5_PresenceOverwrites ==
  /\ m_pc = "main" =>
       \A k \in MergeSlots : Truthy(m_intent[k]) => m_main[k] = m_intent[k]
  /\ m_pc = "clean" =>
       \A k \in MergeSlots : Truthy(m_intent[k]) => m_clean[k] = m_intent[k]

\* C5 witness: main.py's merge has replaced a held value by a different one.
C5_Witness ==
  /\ m_pc = "main"
  /\ \E k \in MergeSlots :
       /\ Truthy(m_session[k]) /\ Truthy(m_intent[k]) /\ m_intent[k] # m_session[k]
       /\ m_main[k] = m_intent[k]

\* C6: an update_booking turn whose intent carries no reference, in a session
\* that holds a booking_reference from an earlier turn, is dispatched with the
\* session's reference and does not ask for the reference again.
C6_UpdateUsesSessionReference ==
  (/\ TurnDispatched("update_booking")
   /\ ~Truthy(last_intent["booking_reference"])
   /\ Truthy(booking_info["booking_reference"]))
  => (/\ reply # "ask_reference"
      /\ \E i \in 1..Len(calls) : calls[i].ref = booking_info["booking_reference"])

\* C7: with all six required slots accumulated in the session (and a date that
\* normalizes), a book turn whose intent repeats none of them goes on to the
\* availability check and, when the remote API confirms, returns booking_data
\* with a reference.
C7_BookFromAccumulatedSlots ==
  (/\ TurnDispatched("book")
   /\ \A f \in RequiredSet : ~Truthy(last_intent[f]) /\ Truthy(booking_info[f])
   /\ normalize_date_text(booking_info["date"]) # NoDate)
  => (/\ HasCall(calls, "check_availability")
      /\ (\E i \in 1..Len(calls) : calls[i].op = "create_booking" /\ calls[i].ok)
           => booking_data.present)

\* C8: a book dispatch with a required field missing makes no create_booking
\* call and replies with a clarifying question naming a missing field.
ClarifyingReplies ==
  {"ask_restaurant", "ask_date", "ask_party_size", "ask_time", "offer_times",
   "ask_name", "ask_email"}
C8_MissingFieldsAskClarification ==
  (TurnDispatched("book") /\ Missing(last_intent) # {})
  => (~HasCall(calls, "create_booking") /\ reply \in ClarifyingReplies)

\* C9: a turn in which the text-completion backend fails still ends with a
\* reply to the caller: /chat never answers with an error response.
C9_BackendFailureStillReplies == http_status # 500

\* C10: when the LLM intent extraction raises, returns text with no JSON object
\* or returns an empty object, the booking processor uses the intent of the
\* rule-based extractor.
C10_FallbackToRuleBased ==
  (e_pc = "done" /\ e_raw \in LLMFailures)
  => e_intent = extract_booking_intent(e_input)

\* C10 witness: the LLM answer had no JSON object and the intent used is the
\* rule-based one of an utterance that asks to book and names the slots.
C10_Witness ==
  /\ e_pc = "done"
  /\ e_raw = "nonjson"
  /\ e_intent["action"] = "book"
  /\ e_intent["email"] = SlotValue("email")

\* the reply kinds whose text embeds the remote API's error message
\* (availability_check['error'], booking_result['error'])
RemoteErrorReplies == {"availability_error", "booking_failed"}
\* the reply that reports an answer without a reference as an error
NoReferenceReplies == {"no_reference"}
MutatingOps == {"create_booking", "update_booking", "cancel_booking"}

\* C11: a turn that fails internally (the dispatcher's apology, or the HTTP 500
\* of the endpoint) leaves the session's accumulated booking slots as they were
\* before the turn.
C11_FailedTurnKeepsSlots ==
  [][(reply' = "apology" \/ http_status' = 500) => booking_info' = booking_info]_vars

\* C14: an update_booking call that changes the date or the party size is
\* preceded, in the same turn, by an availability check that found an
\* available slot.
C14_UpdateRechecksAvailability ==
  (/\ TurnDispatched("update_booking")
   /\ HasCall(calls, "update_booking")
   /\ \/ Truthy(last_intent["party_size"])
      \/ Truthy(last_intent["date"]) /\ ~DateSkipped(last_intent["date"]))
  => \E i \in 1..Len(calls) :
       /\ calls[i].op = "check_availability"
       /\ calls[i].ok
       /\ \E k \in 1..Len(calls[i].slots) : calls[i].slots[k].available
       /\ \A j \in 1..Len(calls) : calls[j].op = "update_booking" => i < j

\* C16: after a create_booking answer that carries a reference, the reply is
\* the confirmation, booking_data carries exactly that reference and the
\* session's state holds it.
C16_BookStoresReturnedReference ==
  \A i \in 1..Len(calls) :
    (calls[i].op = "create_booking" /\ calls[i].ok /\ calls[i].ref \in Refs)
    => (/\ reply = "reservation_confirmed"
        /\ booking_data.present
        /\ booking_data.reference = calls[i].ref
        /\ booking_info["booking_reference"] = calls[i].ref)

\* C17: a create, update or cancel answer with no error and no reference is
\* reported as a distinct error and no booking_data is returned.
C17_NoReferenceIsAnError ==
  (\E i \in 1..Len(calls) :
     calls[i].op \in MutatingOps /\ calls[i].ok /\ calls[i].status = "noref")
  => (reply \in NoReferenceReplies /\ ~booking_data.present)

\* C18: a book, update_booking or cancel_booking turn whose last remote call
\* returned an error replies with a text that contains that error message.
C18_RemoteErrorSurfaced ==
  (/\ http_status = 200
   /\ last_intent["action"] \in {"book", "update_booking", "cancel_booking"}
   /\ calls # <<>>
   /\ calls[Len(calls)].op \in MutatingOps \cup {"check_availability"}
   /\ ~calls[Len(calls)].ok)
  => reply \in RemoteErrorReplies

\* C19: within one turn create_booking is called at most once and no operation
\* is called twice for the same restaurant, whatever the remote API answers.
C19_NoRemoteCallRetried ==
  /\ Cardinality({i \in 1..Len(calls) : calls[i].op = "create_booking"}) <= 1
  /\ \A i, j \in 1..Len(calls) :
       (i # j) => ~(calls[i].op = calls[j].op /\ calls[i].restaurant = calls[j].restaurant)

\* C19 witness: an update turn in which every restaurant refused the update,
\* each asked once.
C19_Witness ==
  /\ TurnDispatched("update_booking")
  /\ reply = "update_failed"
  /\ Cardinality({i \in 1..Len(calls) : calls[i].op = "update_booking" /\ ~calls[i].ok})
       = Len(Catalog)

\* C15: the rule-based extractor classifies a message by the first class, in
\* the order cancellation > modification > lookup > availability > booking,
\* that has a keyword in it, and gives no action when none has; a message with
\* a cancellation keyword and a booking keyword is cancel_booking.
C15_KeywordPriority ==
  k_pc = "done" =>
    LET order == <<cancel_keywords, modify_keywords, lookup_keywords,
                   availability_keywords, booking_keywords>>
        actions == <<"cancel_booking", "update_booking", "get_booking",
                     "check_availability", "book">>
        hits == {i \in 1..Len(order) : AnyKeywordIn(order[i], k_message)}
    IN /\ hits = {} => k_action = Absent
       /\ \A i \in hits : (\A j \in hits : i <= j) => k_action = actions[i]
       /\ (1 \in hits /\ 5 \in hits) => k_action = "cancel_booking"

\* C15 witness: a message with "cancel" and "book" classified cancel_booking.
C15_Witness ==
  /\ k_pc = "done"
  /\ {"cancel", "book"} \subseteq k_message
  /\ k_action = "cancel_booking"

\* the requests of a session that have read its state and not yet written back
InFlight(session_id) ==
  {r \in Requests : c_req[r].sid = session_id /\ c_req[r].pc \in {"running", "merged"}}

\* C12: two turns of one session never interleave (at most one is between its
\* read of the session's state and its write-back), so the slot a completed
\* turn merged is still in the session's booking_info.
C12_TurnsOfSessionDoNotInterleave ==
  /\ \A sid \in SessionIds : Cardinality(InFlight(sid)) <= 1
  /\ \A r \in Requests :
       c_req[r].pc = "done" =>
         BookingInfoOf(c_req[r].sid)[c_req[r].slot] = SlotValue(c_req[r].slot)

\* C13: a step of a turn of session A leaves the entry of every other session
\* B (its booking slots, session_data and conversation_history) unchanged.
C13_OtherSessionsUntouched ==
  [][\A r \in Requests :
       c_req'[r] # c_req[r] =>
         \A sid \in SessionIds \ {c_req'[r].sid} :
           /\ c_sessions'[sid] = c_sessions[sid]
           /\ BookingInfoOf(sid)' = BookingInfoOf(sid)]_vars

\* C13 witness: turns of two different sessions are in flight together, both
\* past their merge, and each session's entry holds nothing yet.
C13_Witness ==
  /\ c_req[1].pc = "merged" /\ c_req[2].pc = "merged"
  /\ c_req[1].sid # c_req[2].sid
  /\ \A sid \in SessionIds : c_sessions[sid].exists /\ c_sessions[sid].obj = 0

\* C20: get_booking asks the catalog restaurants in the order of the metadata
\* table, makes no call after the first lookup that succeeds, and reports the
\* record of that restaurant.
C20_ProbeStopsAtFirstSuccess ==
  (p_pc = "get" /\ Truthy(p_ref)) =>
    LET cs == p_result.calls IN
    /\ Len(cs) >= 1 /\ Len(cs) <= Len(Catalog)
    /\ \A i \in 1..Len(cs) :
         /\ cs[i].op = "get_booking"
         /\ cs[i].restaurant = Catalog[i]
         /\ cs[i].ok = GetOk(p_remote, p_ora, p_ref, Catalog[i])
         /\ cs[i].ok => i = Len(cs)
    /\ ~cs[Len(cs)].ok => (Len(cs) = Len(Catalog) /\ ~p_result.booking_data.present)
    /\ cs[Len(cs)].ok =>
         /\ p_result.booking_data.present
         /\ p_result.booking_data.restaurant = Catalog[Len(cs)]
         /\ p_result.booking_data.status = p_remote[Catalog[Len(cs)]][p_ref]

\* C20 witness: two restaurants hold the reference; only the first was asked.
C20_Witness ==
  /\ p_pc = "get" /\ Truthy(p_ref)
  /\ Cardinality({r \in CatalogSet : GetOk(p_remote, p_ora, p_ref, r)}) >= 2
  /\ Len(p_result.calls) = 1
  /\ p_result.booking_data.restaurant = Catalog[1]

\* C21: a check_availability with date and party size but no restaurant queries
\* every restaurant of the catalog, a failing query not ending the others;
\* availability_data holds exactly the restaurants with an available slot; when
\* two or more qualify the reply names every one of them.
C21_AllQualifyingRestaurantsListed ==
  a_pc = "done" =>
    LET qualifying == {r \in AllRestaurants :
                         /\ ~a_avail[r].error
                         /\ \E i \in 1..Len(a_avail[r].available_slots) :
                              a_avail[r].available_slots[i].available}
        listed == {a_result.availability_data.listed[i] :
                     i \in 1..Len(a_result.availability_data.listed)}
    IN
    /\ \A r \in AllRestaurants :
         \E i \in 1..Len(a_result.calls) :
           a_result.calls[i].op = "check_availability" /\ a_result.calls[i].restaurant = r
    /\ a_result.availability_data.restaurants = qualifying
    /\ Cardinality(qualifying) = 1 => a_result.reply = "availability"
    /\ Cardinality(qualifying) >= 2 =>
         a_result.reply = "choose_restaurant" /\ listed = qualifying

\* C22: a booking_reference held in the session is seven characters of A-Z and
\* 0-9 with at least one digit, and none of the ordinary words the extractor
\* knows, whether the LLM answer or the rule-based patterns gave it.
C22_StoredReferenceWellFormed ==
  Truthy(r_session["booking_reference"]) =>
    LET ref == r_session["booking_reference"] IN
    /\ RefLex(ref).len = 7
    /\ RefLex(ref).alnum
    /\ RefLex(ref).digit
    /\ ref \notin {"BOOKING", "TONIGHT", "CONFIRM", "PLEASED", "TOMORROW"}

\* C22 witness: a reference typed in lower case reached the session upper-cased.
C22_Witness ==
  /\ r_pc = "done"
  /\ r_text = "abc1234"
  /\ r_session["booking_reference"] = "ABC1234"

\* C23: when the date of a dispatched check_availability, book or update_booking
\* cannot be normalized, the turn makes no remote booking-API call and the reply
\* asks for a valid date.  Stated for the turns that give the action its other
\* required slots, where nothing else can be asked for first.
C23_InvalidDateNoRemoteCall ==
  (/\ \/ TurnDispatched("check_availability") /\ Truthy(last_intent["party_size"])
      \/ TurnDispatched("book") /\ Missing(last_intent) = {}
      \/ TurnDispatched("update_booking") /\ Truthy(last_intent["booking_reference"])
   /\ Truthy(last_intent["date"])
   /\ normalize_date_text(last_intent["date"]) = NoDate)
  => calls = <<>> /\ reply = "ask_valid_date"

\* C24 as stated: get_booking, update_booking and cancel_booking without a
\* booking reference make no remote call and ask for the reference; an
\* update_booking with a reference but no date, time or party size makes no
\* remote update call and asks what to change.
C24_Original ==
  /\ (/\ \/ TurnDispatched("get_booking")
         \/ TurnDispatched("update_booking")
         \/ TurnDispatched("cancel_booking")
      /\ ~Truthy(last_intent["booking_reference"]))
     => calls = <<>> /\ reply = "ask_reference"
  /\ (/\ TurnDispatched("update_booking")
      /\ Truthy(last_intent["booking_reference"])
      /\ \A k \in {"date", "time", "party_size"} : ~Truthy(last_intent[k]))
     => ~HasCall(calls, "update_booking") /\ reply = "ask_what_to_change"

\* C24, amended: the same, except that an update_booking with a reference and
\* nothing to change whose lookup fetched the booking as cancelled is answered
\* with the already-cancelled rejection instead of the question what to change.
C24_ReferenceAndChangesRequired ==
  /\ (/\ \/ TurnDispatched("get_booking")
         \/ TurnDispatched("update_booking")
         \/ TurnDispatched("cancel_booking")
      /\ ~Truthy(last_intent["booking_reference"]))
     => calls = <<>> /\ reply = "ask_reference"
  /\ (/\ TurnDispatched("update_booking")
      /\ Truthy(last_intent["booking_reference"])
      /\ \A k \in {"date", "time", "party_size"} : ~Truthy(last_intent[k]))
     => /\ ~HasCall(calls, "update_booking")
        /\ reply = IF FetchedStatus(calls, last_intent["booking_reference"], "cancelled")
                   THEN "already_cancelled" ELSE "ask_what_to_change"

\* C24 witness: an update_booking with a reference and nothing to change found
\* the live booking by lookup, sent no update and asked what to change.
C24_Witness ==
  /\ TurnDispatched("update_booking")
  /\ Truthy(last_intent["booking_reference"])
  /\ \A k \in {"date", "time", "party_size"} : ~Truthy(last_intent[k])
  /\ FetchedStatus(calls, last_intent["booking_reference"], "confirmed")
  /\ ~HasCall(calls, "update_booking")
  /\ reply = "ask_what_to_change"

\* C25: a turn whose merged session state lacks a required book slot is routed
\* to clarification instead of the dispatcher, so it makes no remote call.
\* (The claim routes turns with a conversational marker the same way; the turn
\* that refutes it needs no marker.)
C25_ClarificationWhenSlotMissing ==
  (http_status = 200 /\ \E f \in RequiredSet : ~Truthy(booking_info[f]))
  => calls = <<>>

\* C26: create_booking is not called in the turn that completes the required
\* book slots: that turn only marks the session as awaiting confirmation, and the
\* call waits for a later, confirming turn.  So a turn that calls create_booking
\* starts from a session that already held every required slot.
C26_CreateOnlyAfterConfirmation ==
  [][HasCall(calls', "create_booking")
     => \A f \in RequiredSet : Truthy(booking_info[f])]_vars

\* C27: the message_count a /chat response returns is the number of turns the
\* session has completed, the answered one included, however long the session.
C27_MessageCountIsTurnCount ==
  h_status = 200 => h_count = h_turns

\* C28: main_clean.py's normalize_date_text of a weekday name is the next day
\* with that weekday strictly after today (a week ahead when today has it), 1
\* to 7 days ahead; after "next" it is one week later, 8 to 14 days ahead.
C28_WeekdayStrictlyAhead ==
  (d_pc = "done" /\ d_text.kind = "weekday") =>
    /\ d_clean # NoDate
    /\ weekday(d_clean) = IndexOf(weekdays, d_text.word) - 1
    /\ LET ahead == toordinal(d_clean) - toordinal(d_now) IN
       IF d_text.n1 = 1 THEN ahead \in 8..14 ELSE ahead \in 1..7

\* C28 witness: on Thursday 2025-08-14 "thursday" gave 2025-08-21.
C28_Witness ==
  /\ d_pc = "done"
  /\ d_now = <<2025, 8, 14>>
  /\ d_text.kind = "weekday" /\ d_text.word = "thursday" /\ d_text.n1 = 0
  /\ d_clean = <<2025, 8, 21>>

\* C29: main.py's normalize_date_text of a month name and a day without a year
\* is that day of the current year when it is today or later, the same day of
\* the next year when it has passed, and never a day before today.
C29_MonthDayRollsForward ==
  (d_pc = "done" /\ d_text.kind = "monthday") =>
    LET m == IF InSeq(MonthNames, d_text.word) THEN IndexOf(MonthNames, d_text.word)
             ELSE IndexOf(MonthAbbreviations, d_text.word)
        this_year == <<d_now[1], m, d_text.n1>>
        next_year == <<d_now[1] + 1, m, d_text.n1>>
    IN
    /\ (ValidYMD(d_now[1], m, d_text.n1) /\ ~DateLess(this_year, d_now))
       => d_main = this_year
    /\ (/\ ValidYMD(d_now[1], m, d_text.n1) /\ DateLess(this_year, d_now)
        /\ ValidYMD(d_now[1] + 1, m, d_text.n1))
       => d_main = next_year
    /\ d_main # NoDate => ~DateLess(d_main, d_now)

\* C30: for a valid date written as YYYY-MM-DD, DD/MM/YYYY or DD-MM-YYYY,
\* main.py's normalize_date_text gives that date, and gives the same date again
\* for the ISO text of its answer.
C30_AbsoluteDatesIdempotent ==
  (d_pc = "done" /\ d_text.kind = "digits") =>
    /\ (/\ d_text.sep = "-" /\ d_text.w1 = 4 /\ d_text.w2 \in {1, 2} /\ d_text.w3 \in {1, 2}
        /\ ValidYMD(d_text.n1, d_text.n2, d_text.n3))
       => d_main = <<d_text.n1, d_text.n2, d_text.n3>> /\ d_again = d_main
    /\ (/\ d_text.w1 \in {1, 2} /\ d_text.w2 \in {1, 2} /\ d_text.w3 = 4
        /\ ValidYMD(d_text.n3, d_text.n2, d_text.n1))
       => d_main = <<d_text.n3, d_text.n2, d_text.n1>> /\ d_again = d_main

\* C30 witness: "1/8/2025" gave 2025-08-01, and so did "2025-08-01".
C30_Witness ==
  /\ d_pc = "done"
  /\ d_text = DateText("digits", "", "/", 1, 1, 8, 1, 2025, 4)
  /\ d_main = <<2025, 8, 1>>
  /\ d_again = <<2025, 8, 1>>

\* C31: _normalize_time_to_hhmmss maps a 12-hour text (7pm, 7:30pm, 12am, 12pm)
\* and a bare hour (19) to HH:MM:SS, the minutes 00 when none are given; it
\* returns a canonical HH:MM:SS text unchanged; and it returns 19:00:00 for
\* every text it cannot parse.
C31_TimeForms ==
  t_pc = "done" =>
    /\ (t_text.numeric /\ t_text.parts \in {1, 2} /\ t_text.hour \in 1..12
        /\ t_text.suffix = "pm")
       => t_out = hhmmss(IF t_text.hour = 12 THEN 12 ELSE t_text.hour + 12,
                         IF t_text.parts = 2 THEN t_text.minute ELSE 0)
    /\ (t_text.numeric /\ t_text.parts \in {1, 2} /\ t_text.hour \in 1..12
        /\ t_text.suffix = "am")
       => t_out = hhmmss(IF t_text.hour = 12 THEN 0 ELSE t_text.hour,
                         IF t_text.parts = 2 THEN t_text.minute ELSE 0)
    /\ (t_text.numeric /\ t_text.parts = 1 /\ t_text.suffix = "")
       => t_out = hhmmss(t_text.hour, 0)
    /\ (t_text.numeric /\ t_text.parts = 3 /\ t_text.suffix = "" /\ t_text.wh = 2)
       => t_out = t_text
    /\ ~t_text.numeric => t_out = hhmmss(19, 0)

\* C39: for a text made of an hour 0..23, optional minutes 0..59 and an optional
\* am/pm suffix, the answer is a time of day: hour 0..23 and minutes 0..59.
C39_TimeOfDay ==
  (t_pc = "done" /\ t_text.numeric /\ t_text.parts \in {1, 2}
   /\ t_text.hour \in 0..23 /\ t_text.minute \in 0..59)
  => t_out.hour \in 0..23 /\ t_out.minute \in 0..59

\* C32: after every /chat turn conversation_history holds at most 60 entries; a
\* turn whose two appended entries take it above 60 leaves the first 6 and the
\* last 50 entries of the appended history.
C32_HistoryPrunedTo56 ==
  [][h_turns' = h_turns + 1 =>
       LET appended == h_history \o <<[role |-> "user", turn |-> h_turns + 1],
                                      [role |-> "assistant", turn |-> h_turns + 1]>>
       IN /\ Len(h_history') <= 60
          /\ h_history' = IF Len(appended) > 60
                          THEN SubSeq(appended, 1, 6)
                               \o SubSeq(appended, Len(appended) - 49, Len(appended))
                          ELSE appended]_vars

\* C32 witness: the 34th turn pruned the history a second time, to 56 entries.
C32_Witness ==
  h_turns = 34 /\ Len(h_history) = 56

\* the entries of h come in pairs, a user message and the assistant reply of the
\* same turn, and the pairs are in the order of their turns
InPairsInOrder(h) ==
  /\ Len(h) % 2 = 0
  /\ \A i \in 1..Len(h) :
       /\ h[i].role = (IF i % 2 = 1 THEN "user" ELSE "assistant")
       /\ i % 2 = 0 => h[i].turn = h[i - 1].turn
       /\ i + 2 <= Len(h) => h[i].turn < h[i + 2].turn

\* C33: the first six entries of conversation_history, its first three turns,
\* are never changed or dropped by a later turn or by pruning, and the history
\* stays in chronological order, each user message followed by its reply.
C33_FirstTurnsKept ==
  [][/\ Len(h_history) >= 6 => SubSeq(h_history', 1, 6) = SubSeq(h_history, 1, 6)
     /\ Len(h_history') >= 6 => \A i \in 1..6 : h_history'[i].turn = (i + 1) \div 2
     /\ InPairsInOrder(h_history')]_vars

\* C33 witness: the 31st turn dropped turns 4 to 6 and kept turns 1 to 3.
C33_Witness ==
  /\ h_turns = 31
  /\ h_history[6] = [role |-> "assistant", turn |-> 3]
  /\ h_history[7] = [role |-> "user", turn |-> 7]


\* the time of day a requested time text stands for, and a slot at it
CleanSlotMatches(answer, t) ==
  \E s \in answer.available_slots : s.available /\ s.time = normalize_time_text(t)

\* C34: in main_clean.py create_booking is called in a turn only when the
\* availability check made just before it in that turn succeeded and held an
\* available slot at the requested time; never after a check that gave an error.
C34_CreateOnlyAfterAvailableSlot ==
  \A i \in 1..Len(cl_calls) :
    cl_calls[i].op = "create_booking"
      => /\ i > 1
         /\ cl_calls[i - 1].op = "check_availability"
         /\ ~cl_calls[i - 1].answer.error
         /\ CleanSlotMatches(cl_calls[i - 1].answer, cl_calls[i].time)

\* C35: in main_clean.py, once create_booking has succeeded in the session, a
\* turn whose utterance holds no action keyword makes no create_booking call.
C35_NoRebookingWithoutKeyword ==
  [][(cl_created > 0 /\ cl_said' = "none") => ~HasCall(cl_calls', "create_booking")]_vars


\* C36: in main.py, when the lookups that precede update_booking or
\* cancel_booking find no record for the reference at any restaurant, the turn
\* issues no remote update_booking or cancel_booking call.
C36_NoMutationWithoutRecord ==
  (/\ HasCall(calls, "get_booking")
   /\ \A i \in 1..Len(calls) : calls[i].op = "get_booking" => ~calls[i].ok)
    => ~HasCall(calls, "update_booking") /\ ~HasCall(calls, "cancel_booking")


\* C37: in main.py, when the lookup of a turn found the booking, a remote
\* update_booking or cancel_booking call of that turn that succeeds is addressed
\* to the restaurant at which the lookup found it, and to no other restaurant
\* that holds a booking under the reference.
C37_MutationAtLookedUpRestaurant ==
  LET cs == p_result.calls IN
  \A i \in 1..Len(cs) :
    (/\ cs[i].op \in {"update_booking", "cancel_booking"}
     /\ cs[i].ok
     /\ \E j \in 1..Len(cs) : cs[j].op = "get_booking" /\ cs[j].ok)
      => \E j \in 1..(i - 1) :
           /\ cs[j].op = "get_booking"
           /\ cs[j].ok
           /\ cs[j].restaurant = cs[i].restaurant

\* C38: in main.py, the booking_data of a successful book names, in its
\* restaurant field, the restaurant to which create_booking was sent.
C38_BookingDataNamesRestaurant ==
  (reply = "reservation_confirmed" /\ booking_data.present)
    => \A i \in 1..Len(calls) :
         calls[i].op = "create_booking" => booking_data.restaurant = calls[i].restaurant

=========================================================================
